---- MODULE Spec2Model ----
(***************************************************************************)
(* State-machine model of the ptrace debug event loop and the breakpoint   *)
(* registry of udbg (src/os/linux/udbg.rs, src/udbg/mod.rs).               *)
(*                                                                         *)
(* One attached target.  The tracee is a small x86 program: every address  *)
(* holds one byte, the trap instruction (int3) is one byte long, and the   *)
(* kernel side (wait statuses, signals, single-step) is modelled as far as *)
(* the event loop observes it.                                             *)
(***************************************************************************)
EXTENDS Integers, Sequences, FiniteSets, TLC

(* ------------------------------ bounds --------------------------------- *)
\* number of mapped tracee addresses (0 .. MemSize-1)
MemSize == 4
\* number of thread ids the tracee may ever use
MaxThreads == 2
\* a breakpoint is hit at most this many times
MaxHits == 2
\* the user keeps at most this many breakpoints registered at once
MaxBps == 1

(* --------------------------- tracee image ------------------------------ *)
\* the trap pattern: x86 int3, one byte (0xCC)
BP_INSN == 204

Addr == 0 .. (MemSize - 1)
\* the first address past the mapping: reads and writes of it fail
UnmappedAddr == MemSize
UserAddr == 0 .. MemSize
\* the last mapped byte is int3 padding that belongs to the tracee itself;
\* it is readable but not writable
PadAddr == MemSize - 1
ReadOnlyAddr == PadAddr
\* the code the tracee runs is 0 .. CodeEnd-1, and loops back to 0
CodeEnd == MemSize - 1

\* 0,1: syscall (0x0F 0x05)   2 ...: nop (0x90)   PadAddr: int3
OrigByte(a) ==
    CASE a = 0 -> 15
      [] a = 1 -> 5
      [] a = PadAddr -> 204
      [] OTHER -> 144

\* length of the instruction that starts with byte b
InsnLen(b) == IF b = 15 THEN 2 ELSE 1

\* the instruction starting with byte b is call, syscall, sysenter or rep-prefixed
IsCallLike(b) == b = 15

\* the program counter after the instruction at pc (first byte b) has run
NextPc(pc, b) == IF pc + InsnLen(b) >= CodeEnd THEN 0 ELSE pc + InsnLen(b)

Tids == 1 .. MaxThreads
NoTid == 0
\* Option::None of an address
NoAddr == 0 - 1

SigNum(s) ==
    CASE s = "SIGILL" -> 4
      [] s = "SIGTRAP" -> 5
      [] s = "SIGKILL" -> 9
      [] s = "SIGUSR1" -> 10
      [] s = "SIGSEGV" -> 11
      [] s = "SIGSTOP" -> 19
      [] OTHER -> 0

\* `s as u32`, as its two 16-bit halves
AsU32(s) == [hi |-> (s \div 65536) % 65536, lo |-> s % 65536]

\* a wait status; msg is what PTRACE_GETEVENTMSG returns for it
St(kind, sig, code, msg) == [kind |-> kind, sig |-> sig, code |-> code, msg |-> msg]
NoStatus == St("NoStatus", "None", 0, 0)
StillAlive == St("StillAlive", "None", 0, 0)

Ev(type, code) == [type |-> type, code |-> code]
NoEv == Ev("None", AsU32(0))

NoBp == [present |-> FALSE, enabled |-> FALSE, temp |-> FALSE,
         hit_count |-> 0, origin |-> 0]

Replies == {"Run", "StepIn", "StepOut", "Goto"}

VARIABLES
    \* ---- CommonAdaptor / StandardAdaptor
    bp_map,       \* address -> breakpoint record (NoBp: no entry)
    regs,         \* cached register snapshot: the program counter
    threads,      \* the target's thread set
    detaching,    \* the detaching latch
    waiting,      \* the "waiting in OS" latch
    \* ---- DefaultEngine
    status,       \* the wait status fetched last
    tid,          \* the event thread
    inited,
    cloned_tids,
    \* ---- position of the loop thread
    pc,           \* "fetch" | "handle" | "cb" | "cont" | "done" | "panic"
    cbk,          \* which callback invocation the loop thread is inside
    ev,           \* the event handed to the callback
    curbp,        \* handle_breakpoint's bp: its address, NoAddr outside
    curtemp,      \* ... and its temp flag
    revert,       \* handle_reply's `revert`: the bp disabled for the step-over
    lastreply,    \* the reply handle_reply returned last
    contsig,      \* the HandleResult passed to cont
    \* ---- the tracee and the kernel
    mem,          \* tracee memory
    tstate,       \* per thread: "none" | "running" | "stopped" | "dead" | "detached"
    tpc,          \* per thread: the program counter the OS holds
    wstat,        \* per thread: the status waitpid has not collected yet
    psig,         \* signals pending for the process
    fresh,        \* threads made by clone that have not been resumed yet
    \* ---- what the callback saw
    nInitBp,      \* InitBp events delivered
    exits,        \* codes of the ProcessExit events delivered
    \* ---- the memory utilities (ReadMemoryUtils)
    rshort,       \* per address: how many bytes one primitive read delivers at most
    call,         \* the utility call in progress and what it returned
    \* ---- an engine with more than one target
    rt,           \* the targets' thread sets and event threads, the loop's position
    \* ---- the memory-map and module caches of a target
    cache,        \* the clock, the two TimeChecks and the snapshots taken
    \* ---- the locks of the adaptor
    held,         \* the locks the loop thread holds
    \* ---- user threads inside add_bp
    adders,       \* per user thread: how far its add_bp call has got
    \* ---- DefaultEngine::attach
    att           \* the attach call: tasks attached so far, its result

vars == <<bp_map, regs, threads, detaching, waiting, status, tid, inited,
          cloned_tids, pc, cbk, ev, curbp, curtemp, revert, lastreply, contsig,
          mem, tstate, tpc, wstat, psig, fresh, nInitBp, exits, rshort, call, rt, cache,
          held, adders, att>>

adaptorVars == <<bp_map, regs, threads, detaching, waiting>>
engineVars == <<status, tid, inited, cloned_tids>>
loopVars == <<pc, cbk, ev, curbp, curtemp, revert, lastreply, contsig, held>>
traceeVars == <<mem, tstate, tpc, wstat, psig, fresh>>
seenVars == <<nInitBp, exits>>
\* state of the library parts the event loop does not touch
libVars == <<rshort, call, rt, cache, adders, att>>

(* ----------------------- memory access primitive ----------------------- *)
\* ps.read of one byte: the byte, or -1 for none
ps_read(m, a) == IF a \in Addr THEN m[a] ELSE -1

\* ps.write of one byte: the number of bytes written (0: failed)
ps_write(a) == IF a \in Addr /\ a # ReadOnlyAddr THEN 1 ELSE 0

\* readv::<BpInsn>: the original instruction bytes, or -1
readv(m, a) == ps_read(m, a)

(* -------------------------- breakpoint registry ------------------------ *)
\* the model covers attached targets: their status is never Opened
is_opened == FALSE

bp_exists(bm, a) == a \in Addr /\ bm[a].present

Out(bm, m, res) == [bm |-> bm, m |-> m, res |-> res]

\* faulty variant of enable_breadpoint: disabling clears the flag but writes
\* nothing back
enable_breadpoint_nowrite(bm, m, a, enable) ==
    IF ps_write(a) > 0
    THEN Out([bm EXCEPT ![a].enabled = enable],
             IF enable THEN [m EXCEPT ![a] = BP_INSN] ELSE m, "Ok")
    ELSE Out(bm, m, "MemoryError")

\* faulty variant of enable_breadpoint: the flag is set before the write and
\* stays set when the write fails
enable_breadpoint_unchecked(bm, m, a, enable) ==
    LET data == IF enable THEN BP_INSN ELSE bm[a].origin
    IN  IF ps_write(a) > 0
        THEN Out([bm EXCEPT ![a].enabled = enable], [m EXCEPT ![a] = data], "Ok")
        ELSE Out([bm EXCEPT ![a].enabled = enable], m, "MemoryError")

\* CommonAdaptor::enable_breadpoint on the Soft breakpoint at a
enable_breadpoint(bm, m, a, enable) ==
    LET data == IF enable THEN BP_INSN ELSE bm[a].origin
    IN  IF ps_write(a) > 0
        THEN Out([bm EXCEPT ![a].enabled = enable], [m EXCEPT ![a] = data], "Ok")
        ELSE Out(bm, m, "MemoryError")

\* faulty variant of bp_remove: the entry is dropped without the disable
bp_remove_nodisable(bm, m, a) == Out([bm EXCEPT ![a] = NoBp], m, "Ok")

\* Breakpoint::remove: disable (the result is dropped), then drop the entry
bp_remove(bm, m, a) ==
    LET d == enable_breadpoint(bm, m, a, FALSE)
    IN  Out([d.bm EXCEPT ![a] = NoBp], d.m, "Ok")

\* faulty variant of add_bp: no bp_exists test, the entry is overwritten
add_bp_unchecked(bm, m, a, enable, temp, rw) ==
    IF rw THEN Out(bm, m, "NotSupport")
    ELSE IF readv(m, a) < 0 THEN Out(bm, m, "InvalidAddress")
    ELSE LET bp == [present |-> TRUE, enabled |-> FALSE, temp |-> temp,
                    hit_count |-> 0, origin |-> readv(m, a)]
             ins == [bm EXCEPT ![a] = bp]
             en == enable_breadpoint(ins, m, a, TRUE)
         IN  IF enable THEN Out(en.bm, en.m, "Ok") ELSE Out(ins, m, "Ok")

\* faulty variant of add_bp: the entry is created with the flag the caller
\* asked for, whatever the write of the trap pattern does
add_bp_flag_first(bm, m, a, enable, temp, rw) ==
    IF bp_exists(bm, a) THEN Out(bm, m, "BpExists")
    ELSE IF rw THEN Out(bm, m, "NotSupport")
    ELSE IF readv(m, a) < 0 THEN Out(bm, m, "InvalidAddress")
    ELSE LET bp == [present |-> TRUE, enabled |-> enable, temp |-> temp,
                    hit_count |-> 0, origin |-> readv(m, a)]
         IN  Out([bm EXCEPT ![a] = bp], m, "Ok")

\* faulty variant of add_bp: the temp option is not taken over
add_bp_not_temp(bm, m, a, enable, temp, rw) ==
    IF bp_exists(bm, a) THEN Out(bm, m, "BpExists")
    ELSE IF rw THEN Out(bm, m, "NotSupport")
    ELSE IF readv(m, a) < 0 THEN Out(bm, m, "InvalidAddress")
    ELSE LET bp == [present |-> TRUE, enabled |-> FALSE, temp |-> FALSE,
                    hit_count |-> 0, origin |-> readv(m, a)]
             ins == [bm EXCEPT ![a] = bp]
             en == enable_breadpoint(ins, m, a, TRUE)
         IN  IF enable THEN Out(en.bm, en.m, "Ok") ELSE Out(ins, m, "Ok")

\* faulty variant of add_bp: a hardware request falls through to the software
\* path, and the entry is inserted before the original byte is read
add_bp_eager(bm, m, a, enable, temp, rw) ==
    IF bp_exists(bm, a) THEN Out(bm, m, "BpExists")
    ELSE LET bp == [present |-> TRUE, enabled |-> FALSE, temp |-> temp,
                    hit_count |-> 0, origin |-> readv(m, a)]
             ins == IF a \in Addr THEN [bm EXCEPT ![a] = bp] ELSE bm
             en == enable_breadpoint(ins, m, a, TRUE)
         IN  IF readv(m, a) < 0 THEN Out(ins, m, "InvalidAddress")
             ELSE IF enable THEN Out(en.bm, en.m, "Ok") ELSE Out(ins, m, "Ok")

\* BreakpointManager::add_bp
add_bp(bm, m, a, enable, temp, rw) ==
    IF is_opened THEN Out(bm, m, "NotSupport")
    ELSE IF bp_exists(bm, a) THEN Out(bm, m, "BpExists")
    ELSE IF rw THEN Out(bm, m, "NotSupport")
    ELSE IF readv(m, a) < 0 THEN Out(bm, m, "InvalidAddress")
    ELSE LET bp == [present |-> TRUE, enabled |-> FALSE, temp |-> temp,
                    hit_count |-> 0, origin |-> readv(m, a)]
             ins == [bm EXCEPT ![a] = bp]
             en == enable_breadpoint(ins, m, a, TRUE)
         IN  IF enable THEN Out(en.bm, en.m, "Ok") ELSE Out(ins, m, "Ok")

Registered == {a \in Addr : bp_map[a].present}

(* -------------------------------- Init --------------------------------- *)
\* after attach(pid): thread 1 is in the thread set and runs with the
\* SIGSTOP of ptrace-attach pending; event_loop is about to fetch
InitEngine ==
    /\ bp_map = [a \in Addr |-> NoBp]
    /\ regs = 0
    /\ threads = {1}
    /\ detaching = FALSE
    /\ waiting = FALSE
    /\ status = StillAlive
    /\ tid = NoTid
    /\ inited = FALSE
    /\ cloned_tids = {}
    /\ pc = "fetch"
    /\ cbk = "none"
    /\ ev = NoEv
    /\ curbp = NoAddr
    /\ curtemp = FALSE
    /\ revert = NoAddr
    /\ lastreply = "none"
    /\ contsig = "None"
    /\ held = {}
    /\ tstate = [t \in Tids |-> IF t = 1 THEN "running" ELSE "none"]
    /\ tpc = [t \in Tids |-> 0]
    /\ wstat = [t \in Tids |-> NoStatus]
    /\ psig = {"SIGSTOP"}
    /\ fresh = {}
    /\ nInitBp = 0
    /\ exits = <<>>

\* no utility call in progress
NoCall == [op |-> "none"]

\* the user threads that may call add_bp at the same time
Callers == {1, 2}
\* a user thread outside add_bp
Idle == [at |-> "idle", address |-> NoAddr, enable |-> FALSE, origin |-> 0 - 1,
         inmap |-> FALSE, res |-> "none"]
InitAdders == [c \in Callers |-> Idle]

\* DefaultEngine::attach has not been called: no task of the process is
\* attached, the engine has no target
InitAtt ==
    [at |-> "idle", pid |-> 0, todo |-> <<>>, attached |-> {}, threads |-> {},
     targets |-> {}, res |-> "none"]

\* TimeCheck of a refresh that must not run more often than every
\* TcDuration ticks (10 s in the source)
TcDuration == 2
NoTime == 0 - 99

\* TimeCheck::new(duration) at instant `now`
TimeCheck_new(now) == now - TcDuration

\* two attached targets, process k with the thread k, nothing handled yet
InitRt ==
    [threads |-> [k \in {1, 2} |-> {k}], event_tid |-> [k \in {1, 2} |-> NoTid],
     alive |-> {1, 2}, pend |-> {1, 2}, phase |-> "fetch", tid |-> NoTid,
     owner |-> 0, cb_target |-> 0, inited |-> FALSE]

\* a memory page: the addresses base .. base + size - 1
Page(base, size) == [base |-> base, size |-> size]
\* Option::None of a page
NoPage == Page(NoAddr, 0)
\* the result of a read of the OS: Ok(v), or Err
Ok(v) == [ok |-> TRUE, v |-> v]
Err == [ok |-> FALSE, v |-> {}]
\* what ps.enum_memory() returns while the tracee's mappings are untouched
OsPages == {Page(0, 2), Page(2, 2)}
\* the modules ps.enum_module() lists while the tracee loads nothing new
OsMods == {"libc"}

\* CommonAdaptor::new at instant 0, looked at one tick later; os_maps and
\* os_mods are what the OS would report now (Err: the read fails), os_bad
\* the listed modules whose file cannot be opened or is no ELF file
InitCache ==
    [now |-> 1, tc_memory |-> TimeCheck_new(0), tc_module |-> TimeCheck_new(0),
     mem_at |-> NoTime, mod_at |-> NoTime, mem_n |-> 0, mod_n |-> 0, mods |-> {},
     pages |-> {}, os_maps |-> Ok(OsPages), os_mods |-> Ok(OsMods), os_bad |-> {}]

Init ==
    /\ InitEngine
    /\ mem = [a \in Addr |-> OrigByte(a)]
    /\ rshort = [a \in Addr |-> MemSize]
    /\ call = NoCall
    /\ adders = InitAdders
    /\ att = InitAtt
    /\ rt = InitRt
    /\ cache = InitCache

(* --------------------- operations the user may call -------------------- *)
\* add_bp(BpOpt{address: a, enable, temp, rw})
UserAddBp(a, enable, temp, rw) ==
    /\ Cardinality(Registered) < MaxBps \/ bp_exists(bp_map, a)
    /\ LET r == add_bp(bp_map, mem, a, enable, temp, rw)
       IN  /\ bp_map' = r.bm
           /\ mem' = r.m
    /\ UNCHANGED <<libVars, regs, threads, detaching, waiting, engineVars, loopVars,
                   tstate, tpc, wstat, psig, fresh, nInitBp, exits>>

\* Breakpoint::enable on a registered breakpoint
UserEnable(a, on) ==
    /\ bp_exists(bp_map, a)
    /\ LET r == enable_breadpoint(bp_map, mem, a, on)
       IN  /\ bp_map' = r.bm
           /\ mem' = r.m
    /\ UNCHANGED <<libVars, regs, threads, detaching, waiting, engineVars, loopVars,
                   tstate, tpc, wstat, psig, fresh, nInitBp, exits>>

\* Breakpoint::remove on a registered breakpoint
UserRemove(a) ==
    /\ bp_exists(bp_map, a)
    /\ LET r == bp_remove(bp_map, mem, a)
       IN  /\ bp_map' = r.bm
           /\ mem' = r.m
    /\ UNCHANGED <<libVars, regs, threads, detaching, waiting, engineVars, loopVars,
                   tstate, tpc, wstat, psig, fresh, nInitBp, exits>>

\* TargetControl::breakk: kill(pid, SIGSTOP)
breakk(ps) == ps \cup {"SIGSTOP"}

\* TargetControl::detach
UserDetach ==
    /\ ~detaching
    /\ IF is_opened
       THEN UNCHANGED <<detaching, psig>>
       ELSE /\ detaching' = TRUE
            /\ psig' = IF waiting THEN breakk(psig) ELSE psig
    /\ UNCHANGED <<libVars, bp_map, regs, threads, waiting, engineVars, loopVars,
                   mem, tstate, tpc, wstat, fresh, seenVars>>

\* TargetControl::kill: kill(pid, SIGKILL)
UserKill ==
    /\ \E t \in Tids : tstate[t] \in {"running", "stopped"}
    /\ psig' = psig \cup {"SIGKILL"}
    /\ UNCHANGED <<libVars, adaptorVars, engineVars, loopVars, mem, tstate, tpc, wstat,
                   fresh, seenVars>>

\* TargetControl::breakk called by the user
UserBreak ==
    /\ \E t \in Tids : tstate[t] \in {"running", "stopped"}
    /\ psig' = breakk(psig)
    /\ UNCHANGED <<libVars, adaptorVars, engineVars, loopVars, mem, tstate, tpc, wstat,
                   fresh, seenVars>>

(* ------------------------- the loop thread's state --------------------- *)
\* everything a step of the loop thread may change, as one record
Cur ==
    [bp_map |-> bp_map, mem |-> mem, regs |-> regs, threads |-> threads,
     inited |-> inited, cloned_tids |-> cloned_tids, pc |-> pc, cbk |-> cbk,
     ev |-> ev, curbp |-> curbp, curtemp |-> curtemp, revert |-> revert,
     lastreply |-> lastreply, contsig |-> contsig, held |-> held,
     nInitBp |-> nInitBp,
     exits |-> exits, tstate |-> tstate, tpc |-> tpc, wstat |-> wstat,
     fresh |-> fresh]

Apply(o) ==
    /\ bp_map' = o.bp_map
    /\ mem' = o.mem
    /\ regs' = o.regs
    /\ threads' = o.threads
    /\ inited' = o.inited
    /\ cloned_tids' = o.cloned_tids
    /\ pc' = o.pc
    /\ cbk' = o.cbk
    /\ ev' = o.ev
    /\ curbp' = o.curbp
    /\ curtemp' = o.curtemp
    /\ revert' = o.revert
    /\ lastreply' = o.lastreply
    /\ contsig' = o.contsig
    /\ held' = o.held
    /\ nInitBp' = o.nInitBp
    /\ exits' = o.exits
    /\ tstate' = o.tstate
    /\ tpc' = o.tpc
    /\ wstat' = o.wstat
    /\ fresh' = o.fresh
    /\ UNCHANGED <<detaching, waiting, status, tid, psig, libVars>>

\* TraceBuf::call: the loop thread enters the user callback with event e
Callback(s, k, e) ==
    [s EXCEPT !.pc = "cb", !.cbk = k, !.ev = e,
              !.nInitBp = IF e.type = "InitBp" /\ @ < 2 THEN @ + 1 ELSE @,
              !.exits = IF e.type = "ProcessExit" /\ Len(@) < 2
                        THEN Append(@, e.code) ELSE @]

\* handle returns Some(sig), every lock guard of its frames dropped: the
\* continue phase is next
ToCont(s, sig) ==
    [s EXCEPT !.pc = "cont", !.cbk = "none", !.ev = NoEv, !.contsig = sig,
              !.curbp = NoAddr, !.curtemp = FALSE, !.held = {}]

Panic(s) == [s EXCEPT !.pc = "panic", !.cbk = "none", !.ev = NoEv]

\* faulty variant of insert_thread: the thread set is left as it is
insert_thread_lost(s, t) == s

\* StandardAdaptor::insert_thread
insert_thread(s, t) == [s EXCEPT !.threads = @ \cup {t}]

\* CommonAdaptor::update_regs: getregs fails on a thread that is not stopped
update_regs(s, t) ==
    IF s.tstate[t] = "stopped" THEN [s EXCEPT !.regs = s.tpc[t]] ELSE s

(* --------------------------------- fetch -------------------------------- *)
Traced(ts, t) == ts[t] \in {"running", "stopped"}

\* DefaultEngine::fetch: waitpid(-1) returns the status of some thread, or
\* fails (ECHILD) when no traced thread is left
Fetch ==
    /\ pc = "fetch"
    /\ IF \A t \in Tids : wstat[t] = NoStatus /\ ~Traced(tstate, t)
       THEN /\ pc' = "done"
            /\ UNCHANGED <<status, tid, wstat>>
       ELSE \E t \in Tids :
            /\ wstat[t] # NoStatus
            /\ status' = wstat[t]
            /\ tid' = t
            /\ wstat' = [wstat EXCEPT ![t] = NoStatus]
            /\ pc' = IF t \in threads \/ Traced(tstate, t)
                     THEN "handle" ELSE "panic"
    /\ UNCHANGED <<libVars, adaptorVars, inited, cloned_tids, cbk, ev, curbp, curtemp,
                   revert, lastreply, contsig, held, mem, tstate, tpc, psig, fresh,
                   seenVars>>

(* -------------------------------- handle -------------------------------- *)
\* faulty variant of handle_breakpoint: a temp breakpoint stays registered
handle_breakpoint_keep(s, address) ==
    LET bp == s.bp_map[address]
        s1 == [s EXCEPT !.bp_map[address].hit_count = @ + 1]
    IN  Callback([s1 EXCEPT !.curbp = address, !.curtemp = bp.temp],
                 "bp", Ev("Breakpoint", AsU32(address)))

\* faulty variant of handle_breakpoint: the hit is not counted
handle_breakpoint_nocount(s, address) ==
    LET bp == s.bp_map[address]
        r == bp_remove(s.bp_map, s.mem, address)
        s2 == IF bp.temp THEN [s EXCEPT !.bp_map = r.bm, !.mem = r.m] ELSE s
    IN  Callback([s2 EXCEPT !.curbp = address, !.curtemp = bp.temp],
                 "bp", Ev("Breakpoint", AsU32(address)))

\* CommonAdaptor::handle_breakpoint up to the Breakpoint callback
handle_breakpoint(s, address) ==
    LET bp == s.bp_map[address]
        s1 == [s EXCEPT !.bp_map[address].hit_count = @ + 1]
        r == bp_remove(s1.bp_map, s1.mem, address)
        s2 == IF bp.temp THEN [s1 EXCEPT !.bp_map = r.bm, !.mem = r.m] ELSE s1
    IN  Callback([s2 EXCEPT !.curbp = address, !.curtemp = bp.temp],
                 "bp", Ev("Breakpoint", AsU32(address)))

\* faulty variant of stop_exception: the stop is passed on without a callback
stop_exception_silent(s, sig) == ToCont(s, sig)

\* the Exception{first: true} callback of a stop
stop_exception(s, sig) == Callback(s, "exc", Ev("Exception", AsU32(SigNum(sig))))

\* faulty variant of init_bp: the engine is not marked inited
init_bp_unmarked(s) == Callback(s, "initbp", Ev("InitBp", AsU32(0)))

\* the first SIGSTOP/SIGTRAP stop: mark the engine inited, call back with InitBp
init_bp(s) == Callback([s EXCEPT !.inited = TRUE], "initbp", Ev("InitBp", AsU32(0)))

\* faulty variant of handle_stopped: the just-cloned set is not looked at
handle_stopped_noclone(s, t, sig) ==
    LET s0 == update_regs(s, t)
        ip == s0.regs
        address == IF sig = "SIGTRAP" /\ ip > 0 THEN ip - 1 ELSE ip
        s1 == [s0 EXCEPT !.regs = address]
    IN  IF ~s.inited /\ sig \in {"SIGSTOP", "SIGTRAP"}
        THEN init_bp(s0)
        ELSE IF sig = "SIGSTOP" /\ t \notin s.threads
        THEN ToCont(insert_thread(s0, t), "None")
        ELSE IF sig \in {"SIGTRAP", "SIGILL"}
        THEN IF s.tstate[t] # "stopped"
             THEN Panic(s0)
             ELSE IF bp_exists(s1.bp_map, address)
             THEN handle_breakpoint(s1, address)
             ELSE stop_exception(s1, sig)
        ELSE stop_exception(s0, sig)

\* faulty variant of handle_stopped: the program counter after a trap is
\* taken for the address of the trap
handle_stopped_noadjust(s, t, sig) ==
    LET s0 == update_regs(s, t)
        address == s0.regs
        s1 == s0
    IN  IF ~s.inited /\ sig \in {"SIGSTOP", "SIGTRAP"}
        THEN init_bp(s0)
        ELSE IF sig = "SIGSTOP" /\ t \notin s.threads
        THEN ToCont(insert_thread(s0, t), "None")
        ELSE IF sig = "SIGSTOP" /\ t \in s.cloned_tids
        THEN ToCont([s0 EXCEPT !.cloned_tids = @ \ {t}], "None")
        ELSE IF sig \in {"SIGTRAP", "SIGILL"}
        THEN IF s.tstate[t] # "stopped"
             THEN Panic(s0)
             ELSE IF bp_exists(s1.bp_map, address)
             THEN handle_breakpoint(s1, address)
             ELSE stop_exception(s1, sig)
        ELSE stop_exception(s0, sig)

\* DefaultEngine::handle, WaitStatus::Stopped
handle_stopped(s, t, sig) ==
    LET s0 == update_regs(s, t)
        ip == s0.regs
        address == IF sig = "SIGTRAP" /\ ip > 0 THEN ip - 1 ELSE ip
        s1 == [s0 EXCEPT !.regs = address]
    IN  IF ~s.inited /\ sig \in {"SIGSTOP", "SIGTRAP"}
        THEN init_bp(s0)
        ELSE IF sig = "SIGSTOP" /\ t \notin s.threads
        THEN ToCont(insert_thread(s0, t), "None")
        ELSE IF sig = "SIGSTOP" /\ t \in s.cloned_tids
        THEN ToCont([s0 EXCEPT !.cloned_tids = @ \ {t}], "None")
        ELSE IF sig \in {"SIGTRAP", "SIGILL"}
        THEN IF s.tstate[t] # "stopped"
             THEN Panic(s0)
             ELSE IF bp_exists(s1.bp_map, address)
             THEN handle_breakpoint(s1, address)
             ELSE stop_exception(s1, sig)
        ELSE stop_exception(s0, sig)

HandleStopped ==
    /\ pc = "handle"
    /\ status.kind = "Stopped"
    /\ Apply(handle_stopped(Cur, tid, status.sig))

\* DefaultEngine::handle, WaitStatus::PtraceEvent
\* (code 128: PTRACE_EVENT_STOP, 3: PTRACE_EVENT_CLONE)
HandlePtraceEvent ==
    /\ pc = "handle"
    /\ status.kind = "PtraceEvent"
    /\ Apply(CASE status.code = 128 -> ToCont(insert_thread(Cur, tid), "None")
               [] status.code = 3 ->
                    Callback(Cur, "tcreate", Ev("ThreadCreate", AsU32(status.msg)))
               [] OTHER -> ToCont(Cur, "None"))

\* DefaultEngine::handle, WaitStatus::Signaled
HandleSignaled ==
    /\ pc = "handle"
    /\ status.kind = "Signaled"
    /\ Apply(Callback(Cur, "sigexc", Ev("Exception", AsU32(SigNum(status.sig)))))

\* faulty variant of remove_thread: a thread ended by a signal is reported
\* with the signal's number
remove_thread_signo(s, t, code, sig) ==
    IF t \in s.threads
    THEN Callback([s EXCEPT !.threads = @ \ {t}, !.held = {"threads"}], "texit",
                  Ev("ThreadExit", AsU32(IF sig = "None" THEN code ELSE SigNum(sig))))
    ELSE ToCont(s, sig)

\* faulty variant of remove_thread: ThreadExit is reported, the thread stays
\* in the thread set
remove_thread_keep(s, t, code, sig) ==
    IF t \in s.threads
    THEN Callback([s EXCEPT !.held = {"threads"}], "texit",
                  Ev("ThreadExit", AsU32(code)))
    ELSE ToCont(s, sig)

\* StandardAdaptor::remove_thread up to its first callback; the write guard
\* on the thread set taken in its first line lives until it returns
remove_thread(s, t, code, sig) ==
    IF t \in s.threads
    THEN Callback([s EXCEPT !.threads = @ \ {t}, !.held = {"threads"}], "texit",
                  Ev("ThreadExit", AsU32(code)))
    ELSE ToCont(s, sig)

\* DefaultEngine::handle, WaitStatus::Exited
HandleExited ==
    /\ pc = "handle"
    /\ status.kind = "Exited"
    /\ Apply(remove_thread(Cur, tid, status.code, "None"))

\* faulty variant of ExitResult: the signal of a signalled exit is dropped
ExitResult_none == "None"

\* what handle returns for the status in hand once remove_thread is through
ExitResult == IF status.kind = "Signaled" THEN status.sig ELSE "None"

\* the callback returns where its reply is not looked at
callback_return(s, t) ==
    CASE s.cbk = "initbp" -> ToCont(insert_thread(s, t), "None")
      [] s.cbk = "exc" -> ToCont(s, status.sig)
      [] s.cbk = "tcreate" ->
            ToCont([insert_thread(s, status.msg)
                      EXCEPT !.cloned_tids = @ \cup {status.msg}], "None")
      [] s.cbk = "sigexc" ->
            IF status.sig # "SIGSTOP"
            THEN remove_thread(s, t, 0 - 1, status.sig)
            ELSE ToCont(s, status.sig)
      [] s.cbk = "texit" ->
            IF s.threads = {}
            THEN Callback(s, "pexit", Ev("ProcessExit", s.ev.code))
            ELSE ToCont(s, ExitResult)
      [] s.cbk = "pexit" -> ToCont(s, ExitResult)

CallbackReturn ==
    /\ pc = "cb"
    /\ cbk \in {"initbp", "exc", "tcreate", "sigexc", "texit", "pexit"}
    /\ Apply(callback_return(Cur, tid))

(* ----------------------------- reply handler ---------------------------- *)
\* faulty variant of ptrace_step_and_wait: the thread is not stepped
ptrace_step_and_wait_skip(s, t) == s

\* ptrace_step_and_wait: the thread runs one instruction and the status of
\* the resulting stop is collected; on a thread that is not stopped the step
\* fails and waitpid(tid) collects whatever status the thread has pending
ptrace_step_and_wait(s, t) ==
    IF s.tstate[t] = "stopped"
    THEN LET b == ps_read(s.mem, s.tpc[t])
         IN  [s EXCEPT !.tpc[t] = CASE b < 0 -> s.tpc[t]
                                    [] b = BP_INSN -> s.tpc[t] + 1
                                    [] OTHER -> NextPc(s.tpc[t], b)]
    ELSE [s EXCEPT !.wstat[t] = NoStatus]

\* faulty variant of check_call: no instruction is taken for a call
check_call_none(m, address) == NoAddr

\* AdaptorArchUtil::check_call: the address after a call-like instruction
check_call(m, address) ==
    IF ps_read(m, address) >= 0 /\ IsCallLike(ps_read(m, address))
    THEN address + InsnLen(ps_read(m, address))
    ELSE NoAddr

\* CommonAdaptor::handle_reply, and the loop of handle_breakpoint around it
handle_reply(s, reply, goto, t, bpid) ==
    LET dis == bpid # NoAddr /\ bp_exists(s.bp_map, bpid) /\ s.bp_map[bpid].enabled
        d == IF dis THEN enable_breadpoint(s.bp_map, s.mem, bpid, FALSE)
             ELSE Out(s.bp_map, s.mem, "Ok")
        s1 == [s EXCEPT !.bp_map = d.bm, !.mem = d.m,
                        !.revert = IF dis THEN bpid ELSE NoAddr]
        s2 == ptrace_step_and_wait(s1, t)
        temp_address == CASE reply = "StepOut" -> check_call(s2.mem, s2.regs)
                          [] reply = "Goto" -> goto
                          [] OTHER -> NoAddr
        reply2 == IF reply = "StepOut" /\ temp_address = NoAddr
                  THEN "StepIn" ELSE reply
        r == IF temp_address # NoAddr
             THEN add_bp(s2.bp_map, s2.mem, temp_address, TRUE, TRUE, FALSE)
             ELSE Out(s2.bp_map, s2.mem, "Ok")
        s3 == update_regs([s2 EXCEPT !.bp_map = r.bm, !.mem = r.m,
                                     !.lastreply = reply2], t)
    IN  IF reply2 = "StepIn"
        THEN Callback(s3, "step", Ev("Step", AsU32(0)))
        ELSE ToCont(s3, "None")

\* the Breakpoint or Step callback returns `reply`
HandleReply(reply, goto) ==
    /\ pc = "cb"
    /\ cbk \in {"bp", "step"}
    /\ reply = "Goto" \/ goto = 0
    /\ Apply(handle_reply(Cur, reply, goto, tid,
                          IF cbk = "bp" THEN curbp ELSE NoAddr))

(* ------------------------------- continue ------------------------------- *)
\* a signal the tracer passes on with PTRACE_CONT takes its default action:
\* SIGTRAP, SIGILL and SIGSEGV end the process, the others let the thread run on
Fatal(sig) == sig \in {"SIGTRAP", "SIGILL", "SIGSEGV"}

ptrace_cont(s, t, sig) ==
    IF s.tstate[t] # "stopped" THEN s
    ELSE IF Fatal(sig)
    THEN [s EXCEPT !.tstate = [u \in Tids |-> IF s.tstate[u] \in {"running", "stopped"}
                                             THEN "dead" ELSE s.tstate[u]],
                   !.wstat = [u \in Tids |-> IF s.tstate[u] \in {"running", "stopped"}
                                            THEN St("Signaled", sig, 0, 0)
                                            ELSE s.wstat[u]]]
    ELSE [s EXCEPT !.tstate[t] = "running", !.fresh = @ \ {t}]

\* faulty variant of detach_cleanup: the registry is emptied, the bytes stay
detach_cleanup_forget(s) ==
    [s EXCEPT !.bp_map = [a \in Addr |-> NoBp],
              !.tstate = [u \in Tids |-> IF u \in s.threads /\ s.tstate[u] = "stopped"
                                        THEN "detached" ELSE s.tstate[u]],
              !.wstat = [u \in Tids |-> IF u \in s.threads /\ s.tstate[u] = "stopped"
                                       THEN NoStatus ELSE s.wstat[u]]]

\* the detach branch of cont: every breakpoint removed, every known thread
\* ptrace-detached (which succeeds on a stopped thread only)
detach_cleanup(s) ==
    [s EXCEPT !.bp_map = [a \in Addr |-> NoBp],
              !.mem = [a \in Addr |-> IF s.bp_map[a].present
                                     THEN bp_remove(s.bp_map, s.mem, a).m[a]
                                     ELSE s.mem[a]],
              !.tstate = [u \in Tids |-> IF u \in s.threads /\ s.tstate[u] = "stopped"
                                        THEN "detached" ELSE s.tstate[u]],
              !.wstat = [u \in Tids |-> IF u \in s.threads /\ s.tstate[u] = "stopped"
                                       THEN NoStatus ELSE s.wstat[u]]]

\* faulty variant of cont: the result of ptrace::cont is unwrapped, and the
\* continue of a thread that is gone aborts the loop
cont_unwrap(s, t, sig) ==
    LET s1 == IF detaching THEN detach_cleanup(s) ELSE s
    IN  IF s1.tstate[t] \in {"dead", "none"}
        THEN Panic(s1)
        ELSE [ptrace_cont(s1, t, sig) EXCEPT !.pc = "fetch", !.contsig = "None",
                                            !.revert = NoAddr, !.lastreply = "none"]

\* DefaultEngine::cont
cont(s, t, sig) ==
    LET s1 == IF detaching THEN detach_cleanup(s) ELSE s
    IN  [ptrace_cont(s1, t, sig) EXCEPT !.pc = "fetch", !.contsig = "None",
                                        !.revert = NoAddr, !.lastreply = "none"]

Cont ==
    /\ pc = "cont"
    /\ Apply(cont(Cur, tid, contsig))

(* ------------------------- the tracee and the kernel -------------------- *)
\* a running thread executes the instruction at its program counter; a trap
\* instruction stops it with SIGTRAP, the program counter past the trap, and
\* an unmapped program counter stops it with SIGSEGV
TraceeExec(t) ==
    /\ tstate[t] = "running"
    /\ LET b == ps_read(mem, tpc[t])
       IN  CASE b < 0 ->
                /\ tstate' = [tstate EXCEPT ![t] = "stopped"]
                /\ wstat' = [wstat EXCEPT ![t] = St("Stopped", "SIGSEGV", 0, 0)]
                /\ UNCHANGED tpc
             [] b = BP_INSN ->
                /\ bp_map[tpc[t]].present => bp_map[tpc[t]].hit_count < MaxHits
                /\ tpc' = [tpc EXCEPT ![t] = tpc[t] + 1]
                /\ tstate' = [tstate EXCEPT ![t] = "stopped"]
                /\ wstat' = [wstat EXCEPT ![t] = St("Stopped", "SIGTRAP", 0, 0)]
             [] OTHER ->
                /\ tpc' = [tpc EXCEPT ![t] = NextPc(tpc[t], b)]
                /\ UNCHANGED <<tstate, wstat>>
    /\ UNCHANGED <<libVars, adaptorVars, engineVars, loopVars, mem, psig, fresh, seenVars>>

\* a pending signal other than SIGKILL stops a running thread
TraceeSignal(t, sig) ==
    /\ tstate[t] = "running"
    /\ sig \in psig \ {"SIGKILL"}
    /\ psig' = psig \ {sig}
    /\ tstate' = [tstate EXCEPT ![t] = "stopped"]
    /\ wstat' = [wstat EXCEPT ![t] = St("Stopped", sig, 0, 0)]
    /\ UNCHANGED <<libVars, adaptorVars, engineVars, loopVars, mem, tpc, fresh, seenVars>>

\* SIGKILL ends every thread of the process, stopped or not
TraceeKilled ==
    /\ "SIGKILL" \in psig
    /\ psig' = {}
    /\ tstate' = [t \in Tids |-> IF tstate[t] \in {"running", "stopped", "detached"}
                                THEN "dead" ELSE tstate[t]]
    /\ wstat' = [t \in Tids |-> IF tstate[t] \in {"running", "stopped"}
                               THEN St("Signaled", "SIGKILL", 0, 0) ELSE wstat[t]]
    /\ UNCHANGED <<libVars, adaptorVars, engineVars, loopVars, mem, tpc, fresh, seenVars>>

\* somebody sends the process a signal the debugger has no part in
TraceeRaise ==
    /\ \E t \in Tids : tstate[t] = "running"
    /\ "SIGUSR1" \notin psig
    /\ psig' = psig \cup {"SIGUSR1"}
    /\ UNCHANGED <<libVars, adaptorVars, engineVars, loopVars, mem, tstate, tpc, wstat,
                   fresh, seenVars>>

\* a running thread clones: it stops with PTRACE_EVENT_CLONE, and the new
\* thread, traced from its start, stops with SIGSTOP.  The event is reported
\* only with PTRACE_O_TRACECLONE set, which takes a thread in ptrace-stop:
\* no clone is reported before the session's first stop has been handled
TraceeClone(t, n) ==
    /\ inited
    /\ tstate[t] = "running"
    /\ tstate[n] = "none"
    /\ tstate' = [tstate EXCEPT ![t] = "stopped", ![n] = "stopped"]
    /\ wstat' = [wstat EXCEPT ![t] = St("PtraceEvent", "SIGTRAP", 3, n),
                              ![n] = St("Stopped", "SIGSTOP", 0, 0)]
    /\ tpc' = [tpc EXCEPT ![n] = tpc[t]]
    /\ fresh' = fresh \cup {n}
    /\ UNCHANGED <<libVars, adaptorVars, engineVars, loopVars, mem, psig, seenVars>>

ExitCodes == {3}

\* a running thread exits
TraceeExit(t, code) ==
    /\ tstate[t] = "running"
    /\ tstate' = [tstate EXCEPT ![t] = "dead"]
    /\ wstat' = [wstat EXCEPT ![t] = St("Exited", "None", code, 0)]
    /\ UNCHANGED <<libVars, adaptorVars, engineVars, loopVars, mem, tpc, psig, fresh,
                   seenVars>>

(* --------------------------------- Spec --------------------------------- *)
Next ==
    \/ \E a \in UserAddr, enable \in BOOLEAN, temp \in BOOLEAN, rw \in BOOLEAN :
          UserAddBp(a, enable, temp, rw)
    \/ \E a \in Addr, on \in BOOLEAN : UserEnable(a, on)
    \/ \E a \in Addr : UserRemove(a)
    \/ UserDetach
    \/ UserKill
    \/ UserBreak
    \/ Fetch
    \/ HandleStopped
    \/ HandlePtraceEvent
    \/ HandleSignaled
    \/ HandleExited
    \/ CallbackReturn
    \/ \E reply \in Replies, goto \in UserAddr : HandleReply(reply, goto)
    \/ Cont
    \/ \E t \in Tids : TraceeExec(t)
    \/ \E t \in Tids, sig \in {"SIGSTOP", "SIGUSR1"} : TraceeSignal(t, sig)
    \/ TraceeKilled
    \/ TraceeRaise
    \/ \E t \in Tids, n \in Tids : TraceeClone(t, n)
    \/ \E t \in Tids, code \in ExitCodes : TraceeExit(t, code)

Spec == Init /\ [][Next]_vars

\* the breakpoint protocol on its own: one thread, which runs into traps and
\* is stopped by break(); the user works on the registry and may detach
NextBp ==
    \/ \E a \in UserAddr, enable \in BOOLEAN, temp \in BOOLEAN, rw \in BOOLEAN :
          UserAddBp(a, enable, temp, rw)
    \/ \E a \in Addr, on \in BOOLEAN : UserEnable(a, on)
    \/ \E a \in Addr : UserRemove(a)
    \/ UserDetach
    \/ UserBreak
    \/ Fetch
    \/ HandleStopped
    \/ HandleSignaled
    \/ CallbackReturn
    \/ \E reply \in Replies, goto \in UserAddr : HandleReply(reply, goto)
    \/ Cont
    \/ TraceeExec(1)
    \/ TraceeSignal(1, "SIGSTOP")

SpecBp == Init /\ [][NextBp]_vars

\* the life of the tracee's threads on its own: clone, exit, kill, break and
\* foreign signals, with no breakpoint set
NextLife ==
    \/ UserDetach
    \/ UserKill
    \/ UserBreak
    \/ Fetch
    \/ HandleStopped
    \/ HandlePtraceEvent
    \/ HandleSignaled
    \/ HandleExited
    \/ CallbackReturn
    \/ Cont
    \/ \E t \in Tids, sig \in {"SIGSTOP", "SIGUSR1"} : TraceeSignal(t, sig)
    \/ TraceeKilled
    \/ TraceeRaise
    \/ \E t \in Tids, n \in Tids : TraceeClone(t, n)
    \/ \E t \in Tids, code \in ExitCodes : TraceeExit(t, code)

SpecLife == Init /\ [][NextLife]_vars

(* --------------------------- memory utilities --------------------------- *)
\* BUFLEN of read_util, in elements (100 in the source)
BufLen == 2
\* the largest max_count a caller passes
MaxCount == 3
\* size_of::<T>() of the value types read
ValSizes == {1, 2}
\* the bytes the tracee memory holds when the utilities are exercised
MemBytes == {0, 1}
\* Option::None of a value
NoValue == 0 - 1

Min(a, b) == IF a < b THEN a ELSE b

\* ReadMemory::read_memory(addr, buf) with a buffer of `size` bytes: the
\* slice of the buffer that was filled, <<>> for None.  A read delivers at
\* most rs[addr] bytes and never past the end of the mapping
read_memory(m, rs, addr, size) ==
    IF addr \notin Addr THEN <<>>
    ELSE LET n == Min(size, Min(rs[addr], MemSize - addr))
         IN  [i \in 1 .. n |-> m[addr + i - 1]]

\* core::mem::zeroed() of `size` bytes
Zeroed(size) == [i \in 1 .. size |-> 0]

\* the buffer after a read filled its first Len(data) bytes
Filled(buf, data) ==
    [i \in 1 .. Len(buf) |-> IF i <= Len(data) THEN data[i] ELSE buf[i]]

\* the value a little-endian byte sequence stands for
RECURSIVE FromBytes(_)
FromBytes(b) == IF Len(b) = 0 THEN 0 ELSE b[1] + 256 * FromBytes(Tail(b))

RECURSIVE Pow256(_)
Pow256(i) == IF i = 0 THEN 1 ELSE 256 * Pow256(i - 1)

\* the bytes of a value of `size` bytes
ToBytes(v, size) == [i \in 1 .. size |-> (v \div Pow256(i - 1)) % 256]

\* faulty variant of read_value: any slice counts, whatever its length
read_value_any(m, rs, address, size) ==
    LET buf == read_memory(m, rs, address, size)
    IN  IF Len(buf) = 0 THEN NoValue ELSE FromBytes(Filled(Zeroed(size), buf))

\* ReadMemoryUtils::read_value::<T>, size = size_of::<T>()
read_value(m, rs, address, size) ==
    LET buf == read_memory(m, rs, address, size)
        val == Filled(Zeroed(size), buf)
    IN  IF Len(buf) = 0 THEN NoValue
        ELSE IF Len(buf) = size THEN FromBytes(val) ELSE NoValue

\* the predicates of read_util_eq and read_util_lt
Preds == [kind : {"eq", "lt"}, val : {0, 1}]
Holds(pred, x) == IF pred.kind = "eq" THEN x = pred.val ELSE x < pred.val

\* the elements of a buffer of BufLen values of `size` bytes each
Elems(buf, size) ==
    [k \in 1 .. BufLen |-> FromBytes(SubSeq(buf, (k - 1) * size + 1, k * size))]

\* buf.iter().position(pred), counted from 0; BufLen for None
Position(els, pred) ==
    IF \E k \in 1 .. BufLen : Holds(pred, els[k])
    THEN (CHOOSE k \in 1 .. BufLen :
             Holds(pred, els[k]) /\ \A j \in 1 .. (k - 1) : ~Holds(pred, els[j])) - 1
    ELSE BufLen

\* the while loop of read_util
RECURSIVE read_util_loop(_, _, _, _, _, _, _, _)
read_util_loop(m, rs, pred, max_count, size, result, buf, addr) ==
    LET data == read_memory(m, rs, addr, BufLen * size)
        buf2 == Filled(buf, data)
        els == Elems(buf2, size)
        hit == Position(els, pred)
        over == Len(result) + hit > max_count
        pos == IF over THEN max_count - Len(result) ELSE hit
        end == hit < BufLen \/ over
        result2 == result \o SubSeq(els, 1, pos)
    IN  IF Len(data) = 0 THEN result
        ELSE IF end THEN result2
        ELSE read_util_loop(m, rs, pred, max_count, size, result2, buf2,
                            addr + Len(data))

\* ReadMemoryUtils::read_util::<T>, size = size_of::<T>()
read_util(m, rs, address, pred, max_count, size) ==
    read_util_loop(m, rs, pred, max_count, size, <<>>, Zeroed(BufLen * size),
                   address)

\* a caller reads a typed value
ReadValue(a, size) ==
    /\ call.op = "none"
    /\ call' = [op |-> "read_value", address |-> a, size |-> size,
                ret |-> read_value(mem, rshort, a, size)]
    /\ UNCHANGED <<adaptorVars, engineVars, loopVars, traceeVars, seenVars, rshort, rt, cache,
                   adders, att>>

\* a caller reads values until a predicate holds
ReadUtil(a, pred, max_count, size) ==
    /\ call.op = "none"
    /\ call' = [op |-> "read_util", address |-> a, size |-> size, pred |-> pred,
                max_count |-> max_count,
                ret |-> read_util(mem, rshort, a, pred, max_count, size)]
    /\ UNCHANGED <<adaptorVars, engineVars, loopVars, traceeVars, seenVars, rshort, rt, cache,
                   adders, att>>

\* the caller has taken the result
UtilReturn ==
    /\ call.op # "none"
    /\ call' = NoCall
    /\ UNCHANGED <<adaptorVars, engineVars, loopVars, traceeVars, seenVars, rshort, rt, cache,
                   adders, att>>

\* the memory utilities on their own: any small memory content, any pattern
\* of failing (0), one-byte and unrestricted primitive reads
InitMem ==
    /\ InitEngine
    /\ mem \in [Addr -> MemBytes]
    /\ rshort \in [Addr -> {0, 1, MemSize}]
    /\ call = NoCall
    /\ adders = InitAdders
    /\ att = InitAtt
    /\ rt = InitRt
    /\ cache = InitCache

NextMem ==
    \/ \E a \in UserAddr, size \in ValSizes : ReadValue(a, size)
    \/ \E a \in UserAddr, pred \in Preds, max_count \in 0 .. MaxCount,
          size \in ValSizes : ReadUtil(a, pred, max_count, size)
    \/ UtilReturn

SpecMem == InitMem /\ [][NextMem]_vars

(* ------------------------ more than one target ------------------------- *)
\* DefaultEngine::targets after two attach() calls: target k is process k
Targets == {1, 2}
\* the thread ids the two processes may use
MaxRtThreads == 4
RtTids == 1 .. MaxRtThreads
\* the process a thread id belongs to: odd ids in process 1, even in 2
ProcOf(t) == IF t % 2 = 1 THEN 1 ELSE 2

\* event_loop: buf.target is the first target, for the whole loop
buf_target == 1

\* everything of the one-target model
oneTargetVars == <<adaptorVars, engineVars, loopVars, traceeVars, seenVars>>

\* fetch's search: the first target whose thread set holds the tid, or else
\* the first target whose process has such a task; 0: none (expect panics)
resolve_target(r, t) ==
    IF \E k \in Targets : t \in r.threads[k]
    THEN CHOOSE k \in Targets :
            t \in r.threads[k] /\ \A j \in Targets : t \in r.threads[j] => k <= j
    ELSE IF t \in r.alive THEN ProcOf(t) ELSE 0

\* DefaultEngine::fetch with two targets: the owner is resolved, the event
\* thread is stamped on buf.target
RtFetch ==
    /\ rt.phase = "fetch"
    /\ \E t \in rt.pend :
          LET owner == resolve_target(rt, t)
          IN  rt' = [rt EXCEPT !.pend = @ \ {t},
                               !.tid = t,
                               !.owner = owner,
                               !.event_tid[buf_target] = t,
                               !.phase = IF owner = 0 THEN "panic" ELSE "handle"]
    /\ UNCHANGED <<oneTargetVars, rshort, call, cache, adders, att>>

\* DefaultEngine::handle of a SIGSTOP stop with two targets: `this` is
\* buf.target
RtHandle ==
    /\ rt.phase = "handle"
    /\ LET this == buf_target
       IN  rt' = IF ~rt.inited
                 THEN [rt EXCEPT !.inited = TRUE, !.phase = "cb", !.cb_target = this]
                 ELSE IF rt.tid \notin rt.threads[this]
                 THEN [rt EXCEPT !.threads[this] = @ \cup {rt.tid}, !.phase = "cont"]
                 ELSE [rt EXCEPT !.phase = "cb", !.cb_target = this]
    /\ UNCHANGED <<oneTargetVars, rshort, call, cache, adders, att>>

\* the InitBp or Exception callback returns
RtCallbackReturn ==
    /\ rt.phase = "cb"
    /\ rt' = [rt EXCEPT !.threads[buf_target] = @ \cup {rt.tid},
                        !.phase = "cont", !.cb_target = 0]
    /\ UNCHANGED <<oneTargetVars, rshort, call, cache, adders, att>>

\* DefaultEngine::cont with two targets
RtCont ==
    /\ rt.phase = "cont"
    /\ rt' = [rt EXCEPT !.phase = "fetch"]
    /\ UNCHANGED <<oneTargetVars, rshort, call, cache, adders, att>>

\* a thread that runs is stopped by a SIGSTOP
RtStop(t) ==
    /\ t \in rt.alive
    /\ t \notin rt.pend
    /\ rt.phase = "fetch" \/ rt.tid # t
    /\ rt' = [rt EXCEPT !.pend = @ \cup {t}]
    /\ UNCHANGED <<oneTargetVars, rshort, call, cache, adders, att>>

\* a thread that runs clones; the new thread of the same process stops with
\* SIGSTOP
RtClone(t, n) ==
    /\ rt.inited
    /\ t \in rt.alive
    /\ t \notin rt.pend
    /\ rt.phase = "fetch" \/ rt.tid # t
    /\ n \notin rt.alive
    /\ ProcOf(n) = ProcOf(t)
    /\ rt' = [rt EXCEPT !.alive = @ \cup {n}, !.pend = @ \cup {n}]
    /\ UNCHANGED <<oneTargetVars, rshort, call, cache, adders, att>>

NextRoute ==
    \/ RtFetch
    \/ RtHandle
    \/ RtCallbackReturn
    \/ RtCont
    \/ \E t \in RtTids : RtStop(t)
    \/ \E t \in RtTids, n \in RtTids : RtClone(t, n)

SpecRoute == Init /\ [][NextRoute]_vars

(* ------------------------- the refreshed caches ------------------------- *)
\* the clock runs up to MaxTime ticks
MaxTime == 6
\* each cache is refreshed from the OS at most MaxRefresh times
MaxRefresh == 3
\* the names a caller asks for
AskedMods == {"libc", "nosuch"}

\* everything but the caches
notCacheVars == <<oneTargetVars, rshort, call, rt, adders, att>>

\* faulty variant of check: a check made exactly `duration` after `last`
\* runs the callback too
check_ge(last, now) == now - last >= TcDuration

\* TimeCheck::check: whether the callback runs at instant c.now
check(last, now) == now - last > TcDuration

\* faulty variant of update_memory_page: a failed read empties the cache
update_memory_page_clear(c) ==
    IF ~c.os_maps.ok
    THEN [c EXCEPT !.pages = {}]
    ELSE [c EXCEPT !.mem_n = @ + 1, !.mem_at = c.now, !.pages = c.os_maps.v]

\* CommonAdaptor::update_memory_page: the snapshot of /proc/pid/maps; when
\* ps.enum_memory() fails, `?` returns before the page vector is assigned
update_memory_page(c) ==
    IF ~c.os_maps.ok
    THEN c
    ELSE [c EXCEPT !.mem_n = @ + 1, !.mem_at = c.now, !.pages = c.os_maps.v]

\* names update_module passes over: *.oat and *.apk
SkippedMods == {"base.apk"}

\* faulty variant of update_module: the cache is rebuilt from the entries
\* that could be read
update_module_rebuild(c) ==
    IF ~c.os_mods.ok
    THEN c
    ELSE [c EXCEPT !.mod_n = @ + 1, !.mod_at = c.now,
                   !.mods = {m \in c.os_mods.v :
                                m \notin SkippedMods /\ m \notin c.os_bad}]

\* CommonAdaptor::update_module: the module list is read from the OS; an
\* entry is added unless it is known already, is an .oat or .apk, or its
\* file cannot be opened and read as an ELF file of a known machine
update_module(c) ==
    IF ~c.os_mods.ok
    THEN c
    ELSE [c EXCEPT !.mod_n = @ + 1, !.mod_at = c.now,
                   !.mods = @ \cup {m \in c.os_mods.v :
                                       /\ m \notin c.mods
                                       /\ m \notin SkippedMods
                                       /\ m \notin c.os_bad}]

\* CommonAdaptor::update_memory_page_check_time
update_memory_page_check_time(c) ==
    IF check(c.tc_memory, c.now)
    THEN [update_memory_page(c) EXCEPT !.tc_memory = c.now]
    ELSE c

\* TargetMemory::virtual_query: the caches after the call
virtual_query(c) == update_memory_page_check_time(c)

\* RangeValue::binary_search: the page that holds address, NoPage without one
binary_search(pages, address) ==
    IF \E p \in pages : p.base <= address /\ address < p.base + p.size
    THEN CHOOSE p \in pages : p.base <= address /\ address < p.base + p.size
    ELSE NoPage

\* TargetMemory::virtual_query: what the call returns
virtual_query_result(c, address) == binary_search(virtual_query(c).pages, address)

\* CommonAdaptor::enum_memory
enum_memory(c) == update_memory_page(c)

\* TargetMemory::collect_memory_info, through get_memory_map
collect_memory_info(c) == enum_memory(c)

\* CommonAdaptor::enum_module
enum_module(c) == update_module(c)

\* Target::find_module
find_module(c) ==
    IF check(c.tc_module, c.now)
    THEN [update_module(c) EXCEPT !.tc_module = c.now]
    ELSE c

\* Target::get_module(name)
get_module(c, name) == IF name \in c.mods THEN c ELSE update_module(c)

\* a cache operation that ends in state c of the caches
CacheOp(c) ==
    /\ c.mem_n <= MaxRefresh
    /\ c.mod_n <= MaxRefresh
    /\ cache' = c
    /\ UNCHANGED notCacheVars

VirtualQuery == CacheOp(virtual_query(cache))
EnumMemory == CacheOp(enum_memory(cache))
CollectMemoryInfo == CacheOp(collect_memory_info(cache))
EnumModule == CacheOp(enum_module(cache))
FindModule == CacheOp(find_module(cache))
GetModule(name) == CacheOp(get_module(cache, name))

\* time passes
CacheTick ==
    /\ cache.now < MaxTime
    /\ cache' = [cache EXCEPT !.now = @ + 1]
    /\ UNCHANGED notCacheVars

NextCache ==
    \/ VirtualQuery
    \/ EnumMemory
    \/ CollectMemoryInfo
    \/ EnumModule
    \/ FindModule
    \/ \E name \in AskedMods : GetModule(name)
    \/ CacheTick

SpecCache == Init /\ [][NextCache]_vars

(* ------------------------------ TimeCheck ------------------------------- *)
\* the instant CommonAdaptor::new built the two TimeChecks
TcBuilt == InitCache.tc_memory + TcDuration

\* the TimeChecks right after TimeCheck::new, the clock still at TcBuilt
InitTc ==
    /\ InitEngine
    /\ mem = [a \in Addr |-> OrigByte(a)]
    /\ rshort = [a \in Addr |-> MemSize]
    /\ call = NoCall
    /\ adders = InitAdders
    /\ att = InitAtt
    /\ rt = InitRt
    /\ cache = [InitCache EXCEPT !.now = TcBuilt]

\* the operations that go through TimeCheck::check, and the clock
NextTc ==
    \/ VirtualQuery
    \/ FindModule
    \/ CacheTick

SpecTc == InitTc /\ [][NextTc]_vars

(* ---------------------- refreshes that may fail ------------------------- *)
\* the page vectors and module lists the OS may report
OsMapsChoices == {Err, Ok({Page(0, 2)}), Ok(OsPages)}
OsModsChoices == {Err, Ok(OsMods), Ok({"libc", "libm", "base.apk"})}
OsBadChoices == SUBSET {"libm"}

\* the tracee maps and unmaps memory, loads modules, or goes away
OsChange(maps, mods, bad) ==
    /\ cache' = [cache EXCEPT !.os_maps = maps, !.os_mods = mods, !.os_bad = bad]
    /\ cache' # cache
    /\ UNCHANGED notCacheVars

NextStale ==
    \/ \E maps \in OsMapsChoices, mods \in OsModsChoices, bad \in OsBadChoices :
          OsChange(maps, mods, bad)
    \/ VirtualQuery
    \/ EnumMemory
    \/ EnumModule
    \/ CacheTick

SpecStale == Init /\ [][NextStale]_vars

(* ------------------- add_bp called by several threads ------------------- *)
\* what a step of add_bp leaves alone
notAddVars ==
    <<regs, threads, detaching, waiting, engineVars, loopVars, tstate, tpc, wstat,
      psig, fresh, seenVars, rshort, call, rt, cache, att>>

Done(c, res) == [adders[c] EXCEPT !.at = "done", !.res = res]

\* add_bp up to its bp_exists test, which takes and drops the read lock
AddBpCall(c, a, enable) ==
    /\ adders[c].at = "idle"
    /\ adders' = [adders EXCEPT ![c] =
                    IF bp_exists(bp_map, a)
                    THEN [Done(c, "BpExists") EXCEPT !.address = a]
                    ELSE [Idle EXCEPT !.at = "checked", !.address = a,
                                      !.enable = enable]]
    /\ UNCHANGED <<bp_map, mem, notAddVars>>

\* add_bp: readv::<BpInsn>(opt.address), the bytes saved as the original ones
AddBpReadv(c) ==
    /\ adders[c].at = "checked"
    /\ adders' = [adders EXCEPT ![c] =
                    IF readv(mem, adders[c].address) < 0
                    THEN Done(c, "InvalidAddress")
                    ELSE [adders[c] EXCEPT !.at = "read",
                                           !.origin = readv(mem, adders[c].address)]]
    /\ UNCHANGED <<bp_map, mem, notAddVars>>

\* add_bp: bp_map.write().insert(id, bp), which replaces an entry of that id
AddBpInsert(c) ==
    /\ adders[c].at = "read"
    /\ bp_map' = [bp_map EXCEPT ![adders[c].address] =
                    [present |-> TRUE, enabled |-> FALSE, temp |-> FALSE,
                     hit_count |-> 0, origin |-> adders[c].origin]]
    /\ adders' = [d \in Callers |->
                    IF d = c
                    THEN [adders[c] EXCEPT !.inmap = TRUE,
                             !.at = IF adders[c].enable THEN "inserted" ELSE "done",
                             !.res = IF adders[c].enable THEN "none" ELSE "Ok"]
                    ELSE IF adders[d].address = adders[c].address
                    THEN [adders[d] EXCEPT !.inmap = FALSE]
                    ELSE adders[d]]
    /\ UNCHANGED <<mem, notAddVars>>

\* add_bp: bp.enable(true) on the breakpoint object the call made, its
\* result dropped
AddBpEnable(c) ==
    /\ adders[c].at = "inserted"
    /\ LET a == adders[c].address
       IN  IF ps_write(a) > 0
           THEN /\ mem' = [mem EXCEPT ![a] = BP_INSN]
                /\ bp_map' = IF adders[c].inmap
                             THEN [bp_map EXCEPT ![a].enabled = TRUE]
                             ELSE bp_map
           ELSE UNCHANGED <<mem, bp_map>>
    /\ adders' = [adders EXCEPT ![c] = Done(c, "Ok")]
    /\ UNCHANGED notAddVars

\* the call has returned; the thread may call again
AddBpReturn(c) ==
    /\ adders[c].at = "done"
    /\ adders' = [adders EXCEPT ![c] = Idle]
    /\ UNCHANGED <<bp_map, mem, notAddVars>>

NextAdd ==
    \/ \E c \in Callers, a \in UserAddr, enable \in BOOLEAN : AddBpCall(c, a, enable)
    \/ \E c \in Callers : AddBpReadv(c)
    \/ \E c \in Callers : AddBpInsert(c)
    \/ \E c \in Callers : AddBpEnable(c)
    \/ \E c \in Callers : AddBpReturn(c)

SpecAdd == Init /\ [][NextAdd]_vars

(* ------------------- attach to a multi-threaded process ----------------- *)
\* after attach(pid) of a process with the tasks 1 and 2: both are in the
\* thread set, and each is in the SIGSTOP stop that ptrace-attach induces
InitAttached ==
    /\ bp_map = [a \in Addr |-> NoBp]
    /\ regs = 0
    /\ threads = {1, 2}
    /\ detaching = FALSE
    /\ waiting = FALSE
    /\ status = StillAlive
    /\ tid = NoTid
    /\ inited = FALSE
    /\ cloned_tids = {}
    /\ pc = "fetch"
    /\ cbk = "none"
    /\ ev = NoEv
    /\ curbp = NoAddr
    /\ curtemp = FALSE
    /\ revert = NoAddr
    /\ lastreply = "none"
    /\ contsig = "None"
    /\ held = {}
    /\ tstate = [t \in Tids |-> IF t \in {1, 2} THEN "stopped" ELSE "none"]
    /\ tpc = [t \in Tids |-> 0]
    /\ wstat = [t \in Tids |-> IF t \in {1, 2} THEN St("Stopped", "SIGSTOP", 0, 0)
                                              ELSE NoStatus]
    /\ psig = {}
    /\ fresh = {}
    /\ nInitBp = 0
    /\ exits = <<>>
    /\ mem = [a \in Addr |-> OrigByte(a)]
    /\ rshort = [a \in Addr |-> MemSize]
    /\ call = NoCall
    /\ adders = InitAdders
    /\ att = InitAtt
    /\ rt = InitRt
    /\ cache = InitCache

\* the event loop and the tracee, with nobody sending SIGSTOP
NextAttached ==
    \/ UserKill
    \/ Fetch
    \/ HandleStopped
    \/ HandleSignaled
    \/ HandleExited
    \/ CallbackReturn
    \/ Cont
    \/ \E t \in Tids : TraceeSignal(t, "SIGUSR1")
    \/ TraceeKilled
    \/ TraceeRaise
    \/ \E t \in Tids, code \in ExitCodes : TraceeExit(t, code)

SpecAttached == InitAttached /\ [][NextAttached]_vars

(* ------------- the step over a breakpoint and a dying tracee ------------ *)
\* one thread that runs into breakpoints, and a user who sets them and may
\* kill the tracee at any time, also while a callback is running
NextStep ==
    \/ \E a \in UserAddr, enable \in BOOLEAN, temp \in BOOLEAN, rw \in BOOLEAN :
          UserAddBp(a, enable, temp, rw)
    \/ UserKill
    \/ Fetch
    \/ HandleStopped
    \/ HandleSignaled
    \/ CallbackReturn
    \/ \E reply \in Replies, goto \in UserAddr : HandleReply(reply, goto)
    \/ Cont
    \/ TraceeExec(1)
    \/ TraceeSignal(1, "SIGSTOP")
    \/ TraceeKilled

SpecStep == Init /\ [][NextStep]_vars

(* ------------------------- DefaultEngine::attach ------------------------ *)
\* the processes the user attaches to, each with the tasks 1 .. MaxTasks
MaxTasks == 3
Pids == {1, 2, 3}
\* the tid of task i of process p
TaskId(p, i) == 10 * p + i
\* ps.enum_thread() of process p
enum_thread(p) == [i \in 1 .. MaxTasks |-> TaskId(p, i)]

notAttVars == <<oneTargetVars, rshort, call, rt, cache, adders>>

\* attach(pid): StandardAdaptor::open, then the loop over the tasks begins
AttachCall(p) ==
    /\ att.at \in {"idle", "done"}
    /\ p \notin att.targets
    /\ att' = [att EXCEPT !.at = "loop", !.pid = p, !.todo = enum_thread(p),
                          !.threads = {}, !.res = "none"]
    /\ UNCHANGED notAttVars

\* one round of the loop: ptrace::attach(tid) succeeds (ok) and the tid is
\* inserted, or it fails and `?` returns the error, dropping `this`; a task
\* that is attached already cannot be attached again
AttachTask(ok) ==
    /\ att.at = "loop"
    /\ att.todo # <<>>
    /\ ok => Head(att.todo) \notin att.attached
    /\ att' = IF ok
              THEN [att EXCEPT !.attached = @ \cup {Head(att.todo)},
                               !.threads = @ \cup {Head(att.todo)},
                               !.todo = Tail(att.todo)]
              ELSE [att EXCEPT !.at = "done", !.res = "Err", !.todo = <<>>,
                               !.threads = {}]
    /\ UNCHANGED notAttVars

\* the loop is through: self.targets.push(this.clone()); Ok(this)
AttachPush ==
    /\ att.at = "loop"
    /\ att.todo = <<>>
    /\ att' = [att EXCEPT !.at = "done", !.res = "Ok", !.targets = @ \cup {att.pid}]
    /\ UNCHANGED notAttVars

NextAttach ==
    \/ \E p \in Pids : AttachCall(p)
    \/ \E ok \in BOOLEAN : AttachTask(ok)
    \/ AttachPush

SpecAttach == Init /\ [][NextAttach]_vars

(* ------------------------ the loop under fairness ----------------------- *)
\* the thread-group leader: the task ptrace-attach started with
Leader == 1

\* the kernel does not report the exit of the thread-group leader while
\* another thread of the group is alive or is a zombie still to be reaped
\* (wait_consider_task, delay_group_leader)
LeaderLast ==
    (tid' = Leader /\ status'.kind \in {"Exited", "Signaled"})
        => \A u \in Tids \ {Leader} : wstat[u] = NoStatus /\ ~Traced(tstate, u)

\* DefaultEngine::fetch, the exit statuses in the order the kernel keeps
FetchLeaderLast == Fetch /\ LeaderLast

\* a step of the loop thread after fetch; the callback is taken to return
HandleStep ==
    \/ HandleStopped
    \/ HandlePtraceEvent
    \/ HandleSignaled
    \/ HandleExited
    \/ CallbackReturn
    \/ Cont

NextExit ==
    \/ UserDetach
    \/ UserKill
    \/ UserBreak
    \/ FetchLeaderLast
    \/ HandleStopped
    \/ HandlePtraceEvent
    \/ HandleSignaled
    \/ HandleExited
    \/ CallbackReturn
    \/ Cont
    \/ \E t \in Tids, sig \in {"SIGSTOP", "SIGUSR1"} : TraceeSignal(t, sig)
    \/ TraceeKilled
    \/ TraceeRaise
    \/ \E t \in Tids, n \in Tids : TraceeClone(t, n)
    \/ \E t \in Tids, code \in ExitCodes : TraceeExit(t, code)

\* the thread life cycle with a kernel that answers every waitpid it can
\* answer and a loop thread that is always scheduled again
SpecExit ==
    Init /\ [][NextExit]_vars /\ WF_vars(FetchLeaderLast) /\ WF_vars(HandleStep)

(* ============================== properties ============================== *)
OrigImage == [a \in Addr |-> OrigByte(a)]

(* ---- C1 ---- *)
\* C1: while a breakpoint is registered at address a, add_bp(a), whatever its
\* options, returns BpExists and leaves registry and memory as they are; the
\* registry is keyed by address, so it holds at most one entry per address
C1_AddBpExists ==
    /\ DOMAIN bp_map = Addr
    /\ \A a \in Addr :
          bp_exists(bp_map, a) =>
             \A enable \in BOOLEAN, temp \in BOOLEAN, rw \in BOOLEAN :
                add_bp(bp_map, mem, a, enable, temp, rw) = Out(bp_map, mem, "BpExists")

\* a breakpoint that is enabled and has been hit is registered, and add_bp
\* at its address is refused
C1_Witness ==
    \E a \in Addr :
       /\ bp_exists(bp_map, a)
       /\ bp_map[a].hit_count > 0
       /\ add_bp(bp_map, mem, a, TRUE, FALSE, FALSE).res = "BpExists"

(* ---- C2 ---- *)
\* C2: when the Breakpoint callback of an enabled, non-temp breakpoint
\* answers Run, the breakpoint is enabled, with the trap pattern in memory,
\* when the loop thread reaches the continue phase
C2_RearmedAfterRun ==
    [][(/\ pc = "cb" /\ cbk = "bp"
        /\ bp_exists(bp_map, curbp) /\ bp_map[curbp].enabled /\ ~bp_map[curbp].temp
        /\ pc' = "cont" /\ lastreply' = "Run")
       => (bp_map'[curbp].enabled /\ mem'[curbp] = BP_INSN)]_vars

(* ---- C3 ---- *)
\* C3 as stated: for a registered breakpoint, memory at its address is the
\* trap pattern exactly when it is enabled, and the saved original byte
\* exactly when it is disabled
C3_ExactlyWhen ==
    \A a \in Addr :
       bp_exists(bp_map, a) =>
          /\ (mem[a] = BP_INSN) <=> bp_map[a].enabled
          /\ (mem[a] = bp_map[a].origin) <=> ~bp_map[a].enabled

\* C3: for a registered breakpoint, memory at its address is the trap pattern
\* if it is enabled and the saved original byte if it is disabled; the two
\* are told apart by memory whenever the original byte is not the trap pattern
C3_MemoryFollowsFlag ==
    \A a \in Addr :
       bp_exists(bp_map, a) =>
          /\ bp_map[a].enabled => mem[a] = BP_INSN
          /\ ~bp_map[a].enabled => mem[a] = bp_map[a].origin
          /\ bp_map[a].origin = OrigByte(a)
          /\ bp_map[a].origin # BP_INSN => ((mem[a] = BP_INSN) <=> bp_map[a].enabled)

\* a breakpoint that was hit, stepped over and so left disabled
C3_Witness ==
    \E a \in Addr :
       /\ bp_exists(bp_map, a)
       /\ bp_map[a].hit_count > 0
       /\ ~bp_map[a].enabled
       /\ mem[a] = bp_map[a].origin
       /\ bp_map[a].origin # BP_INSN
       /\ pc = "cont"

(* ---- C4 ---- *)
\* C4: when the hit of a temp breakpoint is handled, the Breakpoint callback
\* is entered with no entry at the breakpoint's address, the original byte
\* back in memory, and add_bp at that address succeeding
C4_TempRemovedBeforeCallback ==
    [][(pc = "handle" /\ pc' = "cb" /\ cbk' = "bp" /\ curtemp')
       => (/\ ~bp_exists(bp_map', curbp')
           /\ mem'[curbp'] = OrigByte(curbp')
           /\ \A enable \in BOOLEAN, temp \in BOOLEAN :
                 add_bp(bp_map', mem', curbp', enable, temp, FALSE).res = "Ok")]_vars

\* inside the Breakpoint callback of a temp breakpoint whose trap had been in
\* memory: no entry, original byte restored
C4_Witness ==
    /\ pc = "cb" /\ cbk = "bp" /\ curtemp
    /\ ~bp_exists(bp_map, curbp)
    /\ OrigByte(curbp) # BP_INSN
    /\ mem[curbp] = OrigByte(curbp)
    /\ tpc[tid] = curbp + 1

(* ---- C5 ---- *)
\* C5 as stated: from the moment detach() has set the latch, every address
\* holds its original byte
C5_CleanOnceDetachReturned == detaching => mem = OrigImage

\* C5: the continue phase that finds the latch set leaves the registry empty
\* and every address with its original byte
C5_CleanAfterDetachingCont ==
    [][(pc = "cont" /\ detaching /\ pc' = "fetch")
       => (mem' = OrigImage /\ \A a \in Addr : ~bp_exists(bp_map', a))]_vars

\* the latch is set and the continue phase is about to run with a trap
\* pattern of an enabled breakpoint in memory
C5_Witness ==
    /\ detaching /\ pc = "cont"
    /\ \E a \in Addr :
          /\ bp_exists(bp_map, a) /\ bp_map[a].enabled
          /\ mem[a] = BP_INSN /\ OrigByte(a) # BP_INSN

(* ---- C6 ---- *)
\* C6: a detach() that finds the loop thread blocked in the wait of fetch (no
\* status to collect) leaves a SIGSTOP pending for the tracee
C6_DetachInterruptsWait ==
    [][(/\ ~detaching /\ detaching'
        /\ pc = "fetch"
        /\ \A t \in Tids : wstat[t] = NoStatus
        /\ \E t \in Tids : Traced(tstate, t))
       => "SIGSTOP" \in psig']_vars

(* ---- C7 ---- *)
\* C7: on a registered breakpoint at a writable address, enable(false) leaves
\* the original byte captured at add; a further enable/disable cycle gives
\* the same memory after the disable and after the enable as the first one
C7_EnableDisableReversible ==
    \A a \in Addr :
       (bp_exists(bp_map, a) /\ ps_write(a) > 0) =>
          LET d1 == enable_breadpoint(bp_map, mem, a, FALSE)
              e1 == enable_breadpoint(d1.bm, d1.m, a, TRUE)
              d2 == enable_breadpoint(e1.bm, e1.m, a, FALSE)
              e2 == enable_breadpoint(d2.bm, d2.m, a, TRUE)
              d3 == enable_breadpoint(e2.bm, e2.m, a, FALSE)
          IN  /\ d1.res = "Ok"
              /\ d1.m[a] = bp_map[a].origin
              /\ d1.m[a] = OrigByte(a)
              /\ d1.m = [mem EXCEPT ![a] = OrigByte(a)]
              /\ e1.m = [mem EXCEPT ![a] = BP_INSN]
              /\ d2.m = d1.m /\ d3.m = d1.m
              /\ e2.m = e1.m

\* an enabled breakpoint whose trap pattern differs from the byte it replaced
C7_Witness ==
    \E a \in Addr :
       /\ bp_exists(bp_map, a) /\ bp_map[a].enabled /\ ps_write(a) > 0
       /\ mem[a] = BP_INSN
       /\ enable_breadpoint(bp_map, mem, a, FALSE).m[a] # mem[a]

(* ---- C8 ---- *)
\* C8: inside the Breakpoint callback, before the event thread is stepped or
\* continued, the program counter the OS holds for it equals the cached one
C8_OsPcIsCachedPc ==
    (pc = "cb" /\ cbk = "bp" /\ tstate[tid] = "stopped") => tpc[tid] = regs

C10_ExitCodeIsNine ==
    (pc = "cb" /\ cbk = "pexit" /\ status.kind = "Signaled" /\ status.sig = "SIGKILL")
       => ev = Ev("ProcessExit", AsU32(9))

\* C10: the ProcessExit delivered for a tracee ended by SIGKILL carries the
\* code (-1 as u32) = 0xFFFFFFFF, it is the only ProcessExit delivered, and
\* no session delivers more than one ProcessExit
C10_ExitCodeIsMinusOne ==
    /\ Len(exits) <= 1
    /\ (pc = "cb" /\ cbk = "pexit" /\ status.kind = "Signaled" /\ status.sig = "SIGKILL")
          => (/\ ev = Ev("ProcessExit", [hi |-> 65535, lo |-> 65535])
              /\ exits = <<[hi |-> 65535, lo |-> 65535]>>
              /\ threads = {})

\* inside the ProcessExit callback after kill() ended a tracee of two threads
C10_Witness ==
    /\ pc = "cb" /\ cbk = "pexit"
    /\ status.kind = "Signaled" /\ status.sig = "SIGKILL"
    /\ \A t \in {1, 2} : tstate[t] = "dead"
    /\ Len(exits) = 1

(* ---- C11 ---- *)
\* C11: a PTRACE_EVENT_CLONE is answered with the ThreadCreate(new_tid)
\* callback, after which new_tid and the creating thread are in the thread
\* set; the first stop of the new thread (its post-clone SIGSTOP) reaches no
\* callback and is continued with no signal; an Exited status of a known
\* thread gives ThreadExit, and ProcessExit follows when the set is empty
C11_ThreadCreation ==
    /\ [](/\ (pc = "cb" /\ status.kind = "Stopped") => tid \notin fresh
          /\ (pc = "cont" /\ status.kind = "Stopped" /\ tid \in fresh)
                => (contsig = "None" /\ tid \in threads)
          /\ (pc = "cb" /\ cbk = "tcreate")
                => (ev = Ev("ThreadCreate", AsU32(status.msg)) /\ tid \in threads))
    /\ [][/\ (pc = "handle" /\ pc' # "handle"
              /\ status.kind = "PtraceEvent" /\ status.code = 3)
             => (pc' = "cb" /\ cbk' = "tcreate")
          /\ (pc = "cb" /\ cbk = "tcreate" /\ pc' # "cb")
             => (/\ pc' = "cont" /\ contsig' = "None"
                 /\ {tid, status.msg} \subseteq threads'
                 /\ threads \subseteq threads')
          /\ (pc = "handle" /\ pc' # "handle"
              /\ status.kind = "Exited" /\ tid \in threads)
             => (/\ pc' = "cb" /\ cbk' = "texit"
                 /\ ev' = Ev("ThreadExit", AsU32(status.code))
                 /\ threads' = threads \ {tid})
          /\ (pc = "cb" /\ cbk = "texit" /\ pc' # "cb" /\ threads = {})
             => FALSE
          /\ (pc = "cb" /\ cbk = "texit" /\ threads = {} /\ pc' = "cb" /\ cbk' # "texit")
             => (cbk' = "pexit" /\ ev' = Ev("ProcessExit", ev.code))
          /\ (pc = "cb" /\ cbk = "texit" /\ threads # {} /\ cbk' # "texit")
             => pc' = "cont"]_vars

\* the clone event was handled first and the creating thread resumed; the new
\* thread's post-clone stop has been handled without a callback and is about
\* to be continued with no signal
C11_Witness ==
    /\ pc = "cont" /\ contsig = "None"
    /\ tid = 2 /\ 2 \in fresh
    /\ status = St("Stopped", "SIGSTOP", 0, 0)
    /\ threads = {1, 2} /\ cloned_tids = {}
    /\ tstate[1] = "running" /\ wstat[1] = NoStatus

(* ---- C12 ---- *)
\* C12 as stated: in the callback of every event reported at a stop, the
\* reply StepIn is acted on by the reply handler
C12_StepInAtAnyStop ==
    (pc = "cb" /\ status.kind = "Stopped") => ENABLED HandleReply("StepIn", 0)

\* C12: when a Breakpoint or Step callback replies StepIn (or StepOut where
\* no call is found), the loop thread goes straight into the Step callback of
\* the same thread, the stopped thread having executed exactly one
\* instruction and the cached program counter refreshed; no other event is
\* delivered in between
C12_StepInGivesStep ==
    [][(/\ pc = "cb" /\ cbk \in {"bp", "step"}
        /\ lastreply' = "StepIn"
        /\ (cbk' # cbk \/ pc' # pc \/ tpc' # tpc))
       => (/\ pc' = "cb" /\ cbk' = "step" /\ ev' = Ev("Step", AsU32(0))
           /\ tid' = tid
           /\ nInitBp' = nInitBp /\ exits' = exits
           /\ tstate[tid] = "stopped" =>
                 LET b == ps_read(mem', tpc[tid])
                 IN  /\ tpc' = [tpc EXCEPT ![tid] =
                                  CASE b < 0 -> tpc[tid]
                                    [] b = BP_INSN -> tpc[tid] + 1
                                    [] OTHER -> NextPc(tpc[tid], b)]
                     /\ regs' = tpc'[tid])]_vars

\* inside a Step callback that follows a StepIn reply, the thread one
\* instruction on from where the breakpoint left it
C12_Witness ==
    /\ pc = "cb" /\ cbk = "step" /\ lastreply = "StepIn"
    /\ tstate[tid] = "stopped"
    /\ regs = tpc[tid]
    /\ \E a \in Addr : bp_exists(bp_map, a) /\ bp_map[a].hit_count > 0 /\ regs # a

(* ---- C13 ---- *)
\* what the reply handler makes of the reply StepOut in the current callback
StepOutResult ==
    handle_reply(Cur, "StepOut", 0, tid, IF cbk = "bp" THEN curbp ELSE NoAddr)

\* the temp breakpoint a reply installs at address a
TempBpAt(a) ==
    [present |-> TRUE, enabled |-> TRUE, temp |-> TRUE, hit_count |-> 0,
     origin |-> OrigByte(a)]

ReplyResult(reply, goto) ==
    handle_reply(Cur, reply, goto, tid, IF cbk = "bp" THEN curbp ELSE NoAddr)

\* C14 as stated: on Goto(addr) with addr readable and no breakpoint
\* registered there, an enabled temp breakpoint is at addr when the thread is
\* continued and the reply stays Goto; StepIn and Run add no breakpoint
C14_GotoReadable ==
    (pc = "cb" /\ cbk \in {"bp", "step"}) =>
       /\ \A addr \in UserAddr :
             (readv(mem, addr) >= 0 /\ ~bp_exists(bp_map, addr)) =>
                LET r == ReplyResult("Goto", addr)
                IN  /\ r.pc = "cont" /\ r.lastreply = "Goto"
                    /\ r.bp_map[addr].present /\ r.bp_map[addr].temp
                    /\ r.bp_map[addr].enabled /\ r.mem[addr] = BP_INSN
       /\ \A reply \in {"StepIn", "Run"}, a \in Addr :
             bp_exists(ReplyResult(reply, 0).bp_map, a) <=> bp_exists(bp_map, a)

\* C14: the same for an addr that can also be written; on a readable addr
\* that cannot be written the temp breakpoint is registered but not enabled
C14_GotoWritable ==
    (pc = "cb" /\ cbk \in {"bp", "step"}) =>
       /\ \A addr \in UserAddr :
             (readv(mem, addr) >= 0 /\ ~bp_exists(bp_map, addr)) =>
                LET r == ReplyResult("Goto", addr)
                IN  /\ r.pc = "cont" /\ r.lastreply = "Goto"
                    /\ r.bp_map[addr].present /\ r.bp_map[addr].temp
                    /\ r.bp_map[addr].hit_count = 0
                    /\ r.bp_map[addr].origin = OrigByte(addr)
                    /\ IF ps_write(addr) > 0
                       THEN r.bp_map[addr].enabled /\ r.mem[addr] = BP_INSN
                       ELSE ~r.bp_map[addr].enabled /\ r.mem[addr] = mem[addr]
                    /\ \A a \in Addr \ {addr} :
                          bp_exists(r.bp_map, a) <=> bp_exists(bp_map, a)
       /\ \A reply \in {"StepIn", "Run"}, a \in Addr :
             bp_exists(ReplyResult(reply, 0).bp_map, a) <=> bp_exists(bp_map, a)

\* the reply Goto(addr) was given on a breakpoint other than addr: the temp
\* breakpoint is enabled at addr and the thread is about to be continued
C14_Witness ==
    /\ pc = "cont" /\ lastreply = "Goto"
    /\ revert # NoAddr
    /\ \E addr \in Addr \ {revert} :
          /\ bp_map[addr] = TempBpAt(addr)
          /\ mem[addr] = BP_INSN
          /\ tpc[tid] # addr

(* ---- C15 ---- *)
\* C15: a breakpoint enters the registry with hit count 0; while it stays
\* registered its hit count changes only in the step that delivers a
\* Breakpoint event for it, and then by exactly one; every Breakpoint event
\* delivered for a breakpoint that stays registered counts
C15_HitCountCountsEvents ==
    [][/\ \A a \in Addr :
            /\ (~bp_exists(bp_map, a) /\ bp_exists(bp_map', a))
                  => bp_map'[a].hit_count = 0
            /\ (/\ bp_exists(bp_map, a) /\ bp_exists(bp_map', a)
                /\ bp_map'[a].hit_count # bp_map[a].hit_count)
                  => (/\ bp_map'[a].hit_count = bp_map[a].hit_count + 1
                      /\ pc = "handle" /\ pc' = "cb" /\ cbk' = "bp"
                      /\ curbp' = a
                      /\ ev' = Ev("Breakpoint", AsU32(a)))
       /\ (pc = "handle" /\ pc' = "cb" /\ cbk' = "bp")
             => (/\ bp_exists(bp_map, curbp')
                 /\ curtemp' = bp_map[curbp'].temp
                 /\ ~curtemp' =>
                       bp_map'[curbp'].hit_count = bp_map[curbp'].hit_count + 1)]_vars

\* inside the Breakpoint callback of the second hit of a breakpoint
C15_Witness ==
    /\ pc = "cb" /\ cbk = "bp" /\ ~curtemp
    /\ bp_exists(bp_map, curbp)
    /\ bp_map[curbp].hit_count = 2

(* ---- C16 ---- *)
\* C16: add_bp(..., enable=true) on an unregistered address does not return
\* success with a breakpoint whose enabled flag is false
C16_AddBpSurfacesEnableFailure ==
    \A a \in UserAddr, temp \in BOOLEAN :
        LET r == add_bp(bp_map, mem, a, TRUE, temp, FALSE)
        IN  (~bp_exists(bp_map, a) /\ r.res = "Ok") => r.bm[a].enabled

(* ---- C17 ---- *)
\* C17: enable(bp, on) on a registered breakpoint whose write fails returns
\* MemoryError and leaves registry and memory as they were; when the write
\* succeeds it returns Ok, sets the flag to on and leaves the trap pattern
\* (on) or the saved original byte (off) in memory, touching no other
\* entry; and in every step of the program an enabled flag that changes on
\* a breakpoint that stays registered comes with that memory content
C17_FlagFollowsWrite ==
    /\ [](\A a \in Registered, on \in BOOLEAN :
            LET r == enable_breadpoint(bp_map, mem, a, on)
                data == IF on THEN BP_INSN ELSE bp_map[a].origin
            IN  IF ps_write(a) > 0
                THEN /\ r.res = "Ok"
                     /\ r.bm = [bp_map EXCEPT ![a].enabled = on]
                     /\ r.m = [mem EXCEPT ![a] = data]
                ELSE /\ r.res = "MemoryError"
                     /\ r.bm = bp_map
                     /\ r.m = mem)
    /\ [][\A a \in Addr :
            (/\ bp_exists(bp_map, a) /\ bp_exists(bp_map', a)
             /\ bp_map'[a].enabled # bp_map[a].enabled)
               => (/\ ps_write(a) > 0
                   /\ mem'[a] = IF bp_map'[a].enabled THEN BP_INSN
                                ELSE bp_map[a].origin)]_vars

\* a registered, disabled breakpoint on memory that cannot be written:
\* enable(true) fails on it
C17_Witness ==
    /\ bp_exists(bp_map, ReadOnlyAddr)
    /\ ~bp_map[ReadOnlyAddr].enabled
    /\ enable_breadpoint(bp_map, mem, ReadOnlyAddr, TRUE).res = "MemoryError"
    /\ pc = "cb"

(* ---- C18 ---- *)
\* C18 as stated: a request for a hardware (rw) breakpoint returns NotSupport
C18_RwIsNotSupport ==
    \A a \in UserAddr, enable \in BOOLEAN, temp \in BOOLEAN :
        add_bp(bp_map, mem, a, enable, temp, TRUE).res = "NotSupport"

\* C18: add_bp of a software breakpoint on an address whose byte cannot be
\* read returns InvalidAddress, and add_bp of a hardware (rw) breakpoint on
\* an address with no registered breakpoint returns NotSupport; on a
\* registered address the answer is BpExists; all three leave the registry
\* and the tracee memory as they were
C18_FailedAddHasNoEffect ==
    \A a \in UserAddr, enable \in BOOLEAN, temp \in BOOLEAN :
        LET soft == add_bp(bp_map, mem, a, enable, temp, FALSE)
            hard == add_bp(bp_map, mem, a, enable, temp, TRUE)
        IN  /\ readv(mem, a) < 0 => soft = Out(bp_map, mem, "InvalidAddress")
            /\ ~bp_exists(bp_map, a) => hard = Out(bp_map, mem, "NotSupport")
            /\ bp_exists(bp_map, a) => hard = Out(bp_map, mem, "BpExists")
            /\ soft.res # "Ok" => (soft.bm = bp_map /\ soft.m = mem)

\* with an armed breakpoint in place, add_bp on the unmapped address and a
\* hardware request on a free address are both refused
C18_Witness ==
    /\ pc = "fetch"
    /\ \E b \in Registered :
          /\ bp_map[b].enabled /\ mem[b] = BP_INSN
          /\ \E a \in Addr \ Registered :
                add_bp(bp_map, mem, a, TRUE, FALSE, TRUE).res = "NotSupport"
    /\ add_bp(bp_map, mem, UnmappedAddr, TRUE, FALSE, FALSE).res = "InvalidAddress"

C20_FailuresAreAbsorbed == pc # "panic"

(* ---- C21 ---- *)
\* the bytes of tracee memory at a .. a+size-1
BytesAt(a, size) == [i \in 1 .. size |-> mem[a + i - 1]]

\* C21: read_value::<T>(a) returns a value exactly when the primitive read
\* of size_of::<T>() bytes at a delivers a slice of exactly that length, the
\* bytes of the value are then the bytes of tracee memory at a, and a failed
\* or shorter read yields none; readv of one byte agrees with it
C21_TypedReadAtomic ==
    call.op = "read_value" =>
        LET data == read_memory(mem, rshort, call.address, call.size)
        IN  /\ (call.ret # NoValue) <=> (Len(data) = call.size)
            /\ call.ret # NoValue =>
                  /\ call.address + call.size - 1 \in Addr
                  /\ ToBytes(call.ret, call.size) = BytesAt(call.address, call.size)
                  /\ ToBytes(call.ret, call.size) = data
            /\ (call.size = 1 /\ Len(data) = 1) =>
                  call.ret = readv(mem, call.address)

\* a two-byte value was read whole, with a nonzero high byte
C21_Witness ==
    /\ call.op = "read_value"
    /\ call.size = 2
    /\ call.ret = 257

(* ---- C22 ---- *)
\* C22: read_util returns at most max_count elements, and the element at
\* index k of the result is the value of the tracee memory at
\* address + (k-1) * size, all of whose bytes a primitive read delivered
C22_ReadUtilReturnsWhatWasRead ==
    call.op = "read_util" =>
        /\ Len(call.ret) <= call.max_count
        /\ \A k \in 1 .. Len(call.ret) :
              LET at == call.address + (k - 1) * call.size
              IN  /\ at + call.size - 1 \in Addr
                  /\ \A b \in at .. (at + call.size - 1) : rshort[b] > 0
                  /\ call.ret[k] = FromBytes(BytesAt(at, call.size))

(* ---- C23 ---- *)
\* C23: the continue phase that finds the detaching latch set ends the event
\* loop: it leaves no thread traced and no status to collect, so that the
\* loop thread's next step is its last
C23_DetachingContEndsLoop ==
    [][(pc = "cont" /\ detaching /\ pc' = "fetch")
       => \A t \in Tids : wstat'[t] = NoStatus /\ ~Traced(tstate', t)]_vars

\* C23, second half: the clean-up runs at most once, that is, no continue
\* phase starts with the latch set after a thread has been ptrace-detached
C23_CleanupAtMostOnce ==
    ~(pc = "cont" /\ detaching /\ \E t \in Tids : tstate[t] = "detached")

\* C23, third part: a continue phase with the latch set resumes no thread
C23_NoContWhenDetaching ==
    [][(pc = "cont" /\ detaching /\ pc' = "fetch")
       => \A t \in Tids : tstate[t] # "running" => tstate'[t] # "running"]_vars

(* ---- C24 ---- *)
\* C24: while a status is handled, the target that carries the event-thread
\* stamp, that is consulted and that is passed to the callback is the
\* target that owns the reporting thread, and a thread is only ever
\* registered in the thread set of its own process's target
C24_EventGoesToOwner ==
    /\ rt.phase \in {"handle", "cb", "cont"} =>
          /\ rt.owner = ProcOf(rt.tid)
          /\ buf_target = rt.owner
          /\ rt.event_tid[rt.owner] = rt.tid
    /\ rt.phase = "cb" => rt.cb_target = ProcOf(rt.tid)
    /\ \A k \in Targets : \A t \in rt.threads[k] : ProcOf(t) = k

(* ---- C25 ---- *)
\* C25 as stated: every status that is handled leads into a callback, and
\* from a callback the loop thread goes on to the continue phase without a
\* second callback
C25_ExactlyOneCallback ==
    [][/\ (pc = "handle" /\ pc' # "handle") => pc' \in {"cb", "panic"}
       /\ (pc = "cb" /\ pc' = "cb") => (cbk' = cbk /\ ev' = ev)]_vars

\* C25: the callbacks of one iteration by kind of status.  A stop gives one
\* callback (InitBp, Breakpoint or Exception) unless it is the swallowed
\* SIGSTOP of a new or just-cloned thread, which gives none; a clone event
\* gives ThreadCreate and every other ptrace event none; a signalled exit
\* gives Exception, then ThreadExit if the signal is not SIGSTOP and the
\* thread is known, then ProcessExit if it was the last; a normal exit gives
\* ThreadExit for a known thread and none for an unknown one, then
\* ProcessExit if it was the last; a Breakpoint or Step callback is followed
\* by a Step callback exactly when the reply in effect is StepIn
C25_CallbacksPerStatus ==
    [][/\ (pc = "handle" /\ pc' = "cont") =>
             \/ /\ status.kind = "Stopped" /\ status.sig = "SIGSTOP" /\ inited
                /\ tid \notin threads \/ tid \in cloned_tids
             \/ status.kind = "PtraceEvent" /\ status.code # 3
             \/ status.kind = "Exited" /\ tid \notin threads
       /\ (pc = "handle" /\ pc' = "cb") =>
             /\ status.kind = "Stopped" => cbk' \in {"initbp", "exc", "bp"}
             /\ status.kind = "PtraceEvent" => (cbk' = "tcreate" /\ status.code = 3)
             /\ status.kind = "Signaled" => cbk' = "sigexc"
             /\ status.kind = "Exited" => (cbk' = "texit" /\ tid \in threads)
       /\ (pc = "handle" /\ pc' \notin {"handle", "cont", "cb"}) =>
             (pc' = "panic" /\ status.kind = "Stopped")
       /\ (pc = "cb" /\ pc' = "cb" /\ cbk' # cbk) =>
             \/ /\ cbk = "sigexc" /\ cbk' = "texit"
                /\ status.sig # "SIGSTOP" /\ tid \in threads
             \/ cbk = "texit" /\ cbk' = "pexit" /\ threads = {}
             \/ cbk = "bp" /\ cbk' = "step" /\ lastreply' = "StepIn"
       /\ (pc = "cb" /\ pc' = "cont") =>
             /\ cbk = "sigexc" => (status.sig = "SIGSTOP" \/ tid \notin threads)
             /\ cbk = "texit" => threads # {}
             /\ cbk \in {"bp", "step"} => lastreply' # "StepIn"
       /\ (pc = "cb" /\ pc' \notin {"cb", "cont"}) => FALSE]_vars

\* the third callback of one iteration: ProcessExit after Exception and
\* ThreadExit for the last thread, killed by a signal
C25_Witness ==
    /\ pc = "cb" /\ cbk = "pexit"
    /\ status.kind = "Signaled"
    /\ threads = {}
    /\ ev.type = "ProcessExit"

(* ---- C26 ---- *)
\* C26: once the session is inited, handling a SIGSTOP stop of a thread that
\* is not in the thread set registers the thread and goes to the continue
\* phase with no callback and no signal; of a thread in the thread set and
\* in the just-cloned set takes it out of that set and goes to the continue
\* phase with no callback and no signal; of any other thread calls back
\* with Exception(SIGSTOP), and the return of that callback goes to the
\* continue phase with SIGSTOP to forward
C26_SigstopClassified ==
    [][/\ (/\ pc = "handle" /\ pc' # "handle" /\ inited
           /\ status.kind = "Stopped" /\ status.sig = "SIGSTOP") =>
             IF tid \notin threads
             THEN /\ pc' = "cont" /\ cbk' = "none" /\ contsig' = "None"
                  /\ threads' = threads \cup {tid}
                  /\ cloned_tids' = cloned_tids
             ELSE IF tid \in cloned_tids
             THEN /\ pc' = "cont" /\ cbk' = "none" /\ contsig' = "None"
                  /\ threads' = threads
                  /\ cloned_tids' = cloned_tids \ {tid}
             ELSE /\ pc' = "cb" /\ cbk' = "exc"
                  /\ ev' = Ev("Exception", AsU32(19))
                  /\ threads' = threads /\ cloned_tids' = cloned_tids
       /\ (/\ pc = "cb" /\ cbk = "exc" /\ pc' # "cb"
           /\ status.kind = "Stopped" /\ status.sig = "SIGSTOP") =>
             (pc' = "cont" /\ contsig' = "SIGSTOP")]_vars

\* a SIGSTOP of a known thread, outside the just-cloned set, in a session
\* with a second thread: its Exception callback has returned and SIGSTOP is
\* about to be forwarded
C26_Witness ==
    /\ pc = "cont" /\ contsig = "SIGSTOP"
    /\ inited /\ nInitBp = 1
    /\ status.kind = "Stopped" /\ status.sig = "SIGSTOP"
    /\ tid \in threads /\ tid \notin cloned_tids
    /\ Cardinality(threads) = 2

(* ---- C27 ---- *)
\* what handle makes of a stop of the event thread with signal sig
StopResult(sig) == handle_stopped(Cur, tid, sig)

\* the address handle takes for the place of the stop
Candidate(sig) ==
    IF sig = "SIGTRAP" /\ tpc[tid] > 0 THEN tpc[tid] - 1 ELSE tpc[tid]

\* C27 as stated: every SIGTRAP or SIGILL stop is classified as a
\* breakpoint hit or an exception
C27_TrapAlwaysClassified ==
    (/\ pc = "handle" /\ status.kind = "Stopped"
     /\ status.sig \in {"SIGTRAP", "SIGILL"}
     /\ tstate[tid] = "stopped")
       => StopResult(status.sig).cbk \in {"bp", "exc"}

\* C27: once the session is inited, for a stop of a thread that is still
\* stopped: with SIGTRAP or SIGILL the candidate address is pc - 1 (SIGTRAP,
\* pc > 0) or pc, the cached PC is rewritten to it, and the stop enters the
\* breakpoint protocol exactly when the registry holds that address;
\* otherwise, and for any other signal but SIGSTOP, the callback gets
\* Exception(sig); the return of an Exception callback forwards the signal,
\* the end of the breakpoint protocol forwards none
C27_TrapClassified ==
    /\ []((/\ pc = "handle" /\ status.kind = "Stopped" /\ inited
           /\ tstate[tid] = "stopped") =>
            /\ \A sig \in {"SIGTRAP", "SIGILL"} :
                  LET r == StopResult(sig)
                  IN  /\ r.regs = Candidate(sig)
                      /\ r.pc = "cb"
                      /\ IF bp_exists(bp_map, Candidate(sig))
                         THEN /\ r.cbk = "bp" /\ r.curbp = Candidate(sig)
                              /\ r.ev = Ev("Breakpoint", AsU32(Candidate(sig)))
                         ELSE /\ r.cbk = "exc"
                              /\ r.ev = Ev("Exception", AsU32(SigNum(sig)))
                              /\ r.bp_map = bp_map
            /\ \A sig \in {"SIGSEGV", "SIGUSR1"} :
                  LET r == StopResult(sig)
                  IN  /\ r.pc = "cb" /\ r.cbk = "exc"
                      /\ r.ev = Ev("Exception", AsU32(SigNum(sig)))
                      /\ r.bp_map = bp_map /\ r.regs = tpc[tid])
    /\ [][/\ (pc = "cb" /\ cbk = "exc" /\ pc' # "cb")
             => (pc' = "cont" /\ contsig' = status.sig)
          /\ (pc = "cb" /\ cbk \in {"bp", "step"} /\ pc' = "cont")
             => contsig' = "None"]_vars

\* a SIGTRAP stop at an address with no breakpoint, in an inited session:
\* the Exception callback runs with the cached PC on the trap's address
C27_Witness ==
    /\ pc = "cb" /\ cbk = "exc" /\ inited
    /\ status.kind = "Stopped" /\ status.sig = "SIGTRAP"
    /\ ev = Ev("Exception", AsU32(5))
    /\ tpc[tid] > 0 /\ regs = tpc[tid] - 1
    /\ ~bp_exists(bp_map, regs)

(* ---- C28 ---- *)
\* the loop thread moves on from the callback it is in
LeavesCallback == pc = "cb" /\ (pc' # "cb" \/ cbk' # cbk)

\* (-1) as u32
MinusOne == [hi |-> 65535, lo |-> 65535]

\* C28: a Signaled(sig) status is handled by the callback with
\* Exception(sig) and the thread set untouched; when that callback returns
\* and sig is not SIGSTOP the thread is out of the thread set, and
\* ThreadExit(-1) is called back if it was in it; when that callback returns
\* ProcessExit(-1) is called back if the thread set is empty; and whichever
\* callback is the last, the continue phase follows with sig to forward
C28_SignaledHandled ==
    [][/\ (pc = "handle" /\ pc' # "handle" /\ status.kind = "Signaled") =>
             /\ pc' = "cb" /\ cbk' = "sigexc"
             /\ ev' = Ev("Exception", AsU32(SigNum(status.sig)))
             /\ threads' = threads
       /\ (LeavesCallback /\ cbk = "sigexc") =>
             IF status.sig # "SIGSTOP" /\ tid \in threads
             THEN /\ threads' = threads \ {tid}
                  /\ pc' = "cb" /\ cbk' = "texit"
                  /\ ev' = Ev("ThreadExit", MinusOne)
             ELSE /\ threads' = threads
                  /\ pc' = "cont" /\ contsig' = status.sig
       /\ (LeavesCallback /\ cbk = "texit" /\ status.kind = "Signaled") =>
             IF threads = {}
             THEN /\ pc' = "cb" /\ cbk' = "pexit"
                  /\ ev' = Ev("ProcessExit", MinusOne)
             ELSE pc' = "cont" /\ contsig' = status.sig
       /\ (LeavesCallback /\ cbk = "pexit" /\ status.kind = "Signaled") =>
             (pc' = "cont" /\ contsig' = status.sig /\ threads' = {})]_vars

\* the continue phase after the last thread was reported killed: SIGKILL is
\* carried forward and the one ProcessExit had the code of -1
C28_Witness ==
    /\ pc = "cont" /\ contsig = "SIGKILL"
    /\ status.kind = "Signaled" /\ status.sig = "SIGKILL"
    /\ threads = {}
    /\ exits = <<MinusOne>>

(* ---- C29 ---- *)
\* C29: an Exited(c) status of a thread in the thread set takes the thread
\* out of the set and calls back with ThreadExit(c); when that callback
\* returns, ProcessExit(c) is called back exactly when the thread set is
\* empty; at most one ProcessExit is delivered in a session, and none while
\* the thread set holds a thread
C29_ExitedHandled ==
    /\ [](/\ Len(exits) <= 1
          /\ (pc = "cb" /\ cbk = "pexit") => threads = {})
    /\ [][/\ (pc = "handle" /\ pc' # "handle" /\ status.kind = "Exited"
              /\ tid \in threads) =>
                /\ threads' = threads \ {tid}
                /\ pc' = "cb" /\ cbk' = "texit"
                /\ ev' = Ev("ThreadExit", AsU32(status.code))
                /\ exits' = exits
          /\ (LeavesCallback /\ cbk = "texit" /\ status.kind = "Exited") =>
                IF threads = {}
                THEN /\ pc' = "cb" /\ cbk' = "pexit"
                     /\ ev' = Ev("ProcessExit", AsU32(status.code))
                     /\ exits' = Append(exits, AsU32(status.code))
                ELSE /\ pc' = "cont" /\ contsig' = "None"
                     /\ exits' = exits
          /\ exits' # exits => (cbk' = "pexit" /\ threads' = {})]_vars

\* the last of two threads has exited with code 3: inside its ProcessExit
\* callback
C29_Witness ==
    /\ pc = "cb" /\ cbk = "pexit"
    /\ status.kind = "Exited" /\ status.code = 3
    /\ ev = Ev("ProcessExit", AsU32(3))
    /\ exits = <<AsU32(3)>>
    /\ \A t \in {1, 2} : tstate[t] = "dead"

(* ---- C30 ---- *)
\* C30: whichever operation is called, a refresh of the memory map from the
\* OS comes more than TcDuration after the previous refresh of the memory
\* map, and a refresh of the module cache more than TcDuration after the
\* previous refresh of the module cache
C30_RefreshThrottled ==
    [][/\ cache'.mem_n > cache.mem_n =>
             (cache.mem_at = NoTime \/ cache.now - cache.mem_at > TcDuration)
       /\ cache'.mod_n > cache.mod_n =>
             (cache.mod_at = NoTime \/ cache.now - cache.mod_at > TcDuration)]_vars

\* C30 for the two operations that go through a TimeCheck: virtual_query
\* and find_module refresh only when more than TcDuration has passed since
\* the last refresh they made themselves
C30_CheckedOpsThrottled ==
    /\ virtual_query(cache).mem_n > cache.mem_n =>
          cache.now - cache.tc_memory > TcDuration
    /\ find_module(cache).mod_n > cache.mod_n =>
          cache.now - cache.tc_module > TcDuration

(* ---- C31 ---- *)
\* the first check of the memory-map TimeCheck is still to invoke its thunk
FirstCheckAhead == cache.mem_n = 0 /\ cache.tc_memory = TimeCheck_new(TcBuilt)

\* C31 as stated: the first check after construction invokes the thunk,
\* whenever it is made
C31_FirstCheckInvokes ==
    FirstCheckAhead =>
        /\ virtual_query(cache).mem_n = 1
        /\ virtual_query(cache).tc_memory = cache.now

\* C31: a check invokes the thunk exactly when more than TcDuration has
\* passed since `last`, and then sets `last` to the current instant; any other
\* check calls nothing and leaves `last` as it is; the first check made
\* after the clock has moved on from the construction invokes the thunk
C31_CheckThrottles ==
    /\ IF cache.now - cache.tc_memory > TcDuration
       THEN /\ virtual_query(cache).mem_n = cache.mem_n + 1
            /\ virtual_query(cache).tc_memory = cache.now
       ELSE virtual_query(cache) = cache
    /\ IF cache.now - cache.tc_module > TcDuration
       THEN /\ find_module(cache).mod_n = cache.mod_n + 1
            /\ find_module(cache).tc_module = cache.now
       ELSE find_module(cache) = cache
    /\ FirstCheckAhead /\ cache.now > TcBuilt =>
          /\ virtual_query(cache).mem_n = 1
          /\ virtual_query(cache).tc_memory = cache.now

\* the thunk has run twice, the second time just now, and a third check at
\* this instant would call nothing
C31_Witness ==
    /\ cache.mem_n = 2
    /\ cache.tc_memory = cache.now
    /\ cache.mem_at = cache.now
    /\ virtual_query(cache) = cache

(* ---- C32 ---- *)
\* C32: while the read of the memory map fails, a refresh leaves the cached
\* page vector exactly as it was and virtual_query answers from it; a module
\* refresh keeps every module already cached, does not add an entry whose
\* file cannot be read, and still adds the other entries
C32_ServeStale ==
    /\ [](~cache.os_maps.ok =>
            /\ virtual_query(cache).pages = cache.pages
            /\ enum_memory(cache).pages = cache.pages
            /\ \A a \in UserAddr :
                  virtual_query_result(cache, a) = binary_search(cache.pages, a))
    /\ [][/\ ~cache.os_maps.ok => cache'.pages = cache.pages
          /\ cache.mods \subseteq cache'.mods
          /\ \A m \in cache.os_bad \ cache.mods : m \notin cache'.mods
          /\ cache'.mod_n > cache.mod_n =>
                \A m \in cache.os_mods.v \ (SkippedMods \cup cache.os_bad) :
                    m \in cache'.mods]_vars

\* virtual_query's refresh at this instant failed and the pages of an earlier
\* snapshot are still cached; the module refresh at this instant passed over
\* libm, whose file cannot be read, and kept libc
C32_Witness ==
    /\ ~cache.os_maps.ok
    /\ cache.tc_memory = cache.now
    /\ cache.mem_at < cache.now
    /\ cache.pages = OsPages
    /\ virtual_query_result(cache, 3) = Page(2, 2)
    /\ cache.mod_at = cache.now
    /\ cache.mod_n >= 2
    /\ cache.os_mods.ok
    /\ "libm" \in cache.os_mods.v \cap cache.os_bad
    /\ cache.mods = {"libc"}

(* ---- C33 ---- *)
\* C33: of the add_bp calls that different threads make for one address at
\* the same time only one returns Ok, and the original bytes saved in a
\* registry entry are the bytes the tracee held before any trap was written
C33_OneAdderWins ==
    /\ \A c \in Callers, d \in Callers :
          (c # d /\ adders[c].res = "Ok" /\ adders[d].res = "Ok")
              => adders[c].address # adders[d].address
    /\ \A a \in Addr : bp_map[a].present => bp_map[a].origin = OrigByte(a)

(* ---- C34 ---- *)
\* C34: the SIGTRAP stop of a thread that ran into a trap the debugger wrote
\* (the tracee's own byte at that address is no trap) is not reported as
\* Exception and SIGTRAP is not passed on to the tracee
C34_PlantedTrapIsNoException ==
    (status.kind = "Stopped" /\ status.sig = "SIGTRAP" /\ tid \in Tids
                             /\ tpc[tid] > 0 /\ OrigByte(tpc[tid] - 1) # BP_INSN)
        => /\ ~(pc = "cb" /\ cbk = "exc")
           /\ ~(pc = "cont" /\ contsig = "SIGTRAP")

(* ---- C35 ---- *)
\* C35: the SIGSTOP stop that ptrace-attach induces in each thread of the
\* attached process is not reported as Exception, and SIGSTOP is not passed
\* on to the tracee when that stop is continued
C35_AttachStopsSwallowed ==
    (status.kind = "Stopped" /\ status.sig = "SIGSTOP")
        => /\ ~(pc = "cb" /\ cbk = "exc")
           /\ ~(pc = "cont" /\ contsig = "SIGSTOP")

(* ---- C36 ---- *)
\* C36: a tid is in the just-cloned set only while the thread has not been
\* resumed from its post-clone SIGSTOP stop, and the SIGSTOP stop of a thread
\* that is known and has been resumed since its clone is reported as an
\* Exception event
C36_ClonedSetIsExact ==
    /\ [](cloned_tids \subseteq fresh)
    /\ [][(/\ pc = "handle" /\ pc' # "handle"
           /\ status.kind = "Stopped" /\ status.sig = "SIGSTOP"
           /\ inited /\ tid \in threads /\ tid \notin fresh)
              => (pc' = "cb" /\ cbk' = "exc")]_vars

(* ---- C37 ---- *)
\* C37: the status of a thread that exited or was killed leaves the kernel
\* only as the status in the loop's hand, which handle goes on to look at:
\* the wait inside the step over a breakpoint does not consume it
C37_NoStatusLostInStep ==
    [][\A t \in Tids :
          (wstat[t].kind \in {"Signaled", "Exited"} /\ wstat'[t] = NoStatus)
              => (status' = wstat[t] /\ tid' = t /\ pc' = "handle")]_vars

(* ---- C38 ---- *)
\* C38: while the user callback runs, the loop thread holds no lock on the
\* thread set and none on the breakpoint map
C38_NoLockInCallback == pc = "cb" => held = {}

(* ---- C39 ---- *)
\* C39: when attach(pid) has returned an error, the process is not among the
\* engine's targets and none of its tasks is ptrace-attached
C39_AttachAllOrNothing ==
    (att.at = "done" /\ att.res = "Err")
        => /\ att.pid \notin att.targets
           /\ \A i \in 1 .. MaxTasks : TaskId(att.pid, i) \notin att.attached

(* ---- C40 ---- *)
\* every thread the tracee ever had has exited
AllExited == \A t \in Tids : tstate[t] \in {"none", "dead"}

\* C40: once every thread has exited and ProcessExit has been delivered, the
\* event loop comes to its end (fetch fails and event_loop returns Ok)
C40_LoopEndsAfterProcessExit ==
    (AllExited /\ exits # <<>>) ~> (pc = "done")

\* the loop has ended after both threads of the tracee exited and
\* ProcessExit was delivered
C40_Witness ==
    /\ pc = "done"
    /\ threads = {}
    /\ exits # <<>>
    /\ tstate[1] = "dead" /\ tstate[2] = "dead"
    /\ status.kind = "Exited"

====
